---- MODULE Spec2Model ----
(***************************************************************************)
(* Model of the ClickUp integration of jean (src-tauri/src/clickup):       *)
(*   auth.rs      the OAuth flow with its one-shot local callback server   *)
(*   keychain.rs  the stored access token                                  *)
(*   api.rs       the authenticated API calls and their response policy    *)
(*   commands.rs  logout and the task-context files with their references  *)
(*                                                                         *)
(* An Option<T> of the source is a set with at most one element:           *)
(* {} is None and {v} is Some(v).                                          *)
(***************************************************************************)
EXTENDS Integers, Sequences, FiniteSets, TLC

\* ------------------------------------------------------------------ bounds
\* Number of clickup_start_oauth invocations.
MaxFlows == 2
\* Number of /callback requests one flow's server may receive.
MaxCallbacks == 2

\* Number of API calls in progress at once.
MaxCalls == 1

\* Number of sessions and of ClickUp task ids.
MaxSessions == 2
MaxTasks == 2
\* Number of subtasks a workspace listing may give for one task.
MaxSubtasks == 2
\* Number of tasks in a workspace listing, taken in order.
MaxListing == 3
\* Length of a task name, in characters.
MaxNameLen == 4

Flows == 1..MaxFlows
Calls == 1..MaxCalls
Sessions == 1..MaxSessions
TaskIds == 1..MaxTasks
\* The ids a context file or a reference key can carry: a task and its subtasks.
ContextIds == 1..(IF MaxSubtasks + 1 > MaxTasks THEN MaxSubtasks + 1 ELSE MaxTasks)

\* auth.rs:75, the fixed callback port, as it appears in the bind error text.
OAuthPort == "8642"

\* Error strings the provider may put in the query.
ProviderErrors == {"access_denied"}
\* CallbackParams (auth.rs:208-212): code and error are both Option<String>.
\* Authorization codes are fresh: the k-th request a flow's server receives
\* carries the code "k" when it carries one.
CallbackParams(k) == [code : {{}, {k}},
                      error : {{}} \cup {{e} : e \in ProviderErrors}]

\* The two static pages (auth.rs:16-53).
SUCCESS_HTML == "SUCCESS_HTML"
ERROR_HTML == "ERROR_HTML"

\* The access token the provider issues to flow f's code exchange; 0 is a
\* token left in the keychain by an earlier run of the application.
TokenOf(f) == f
StaleToken == {0}

VARIABLES
  \* keychain.rs: the entry (SERVICE_NAME, ACCOUNT_KEY), an Option<String>.
  token,
  \* 127.0.0.1:8642 is held by a process other than this application.
  portExt,
  \* clickup_start_oauth, per invocation: the point it has reached,
  pc,
  \* the TcpListener / the spawned axum server task,
  listener,
  \* whether open_in_browser ran, and how it ended,
  browser,
  \* the Arc<Mutex<Option<Sender>>>: TRUE while it still holds Some(code_tx),
  tx,
  \* the value sent on the oneshot channel (Option<Result<String, String>>),
  chan,
  \* the authorization code held by the invocation after `result?`,
  code,
  \* the access token returned by exchange_code_for_token,
  tok,
  \* the value the invocation returned and the text of its Err,
  result, errInfo,
  \* observations: bind calls, the first /callback request and its page, the
  \* number of requests served, the pages given to later requests, token
  \* exchange requests sent, keychain writes attempted, events emitted.
  bindCalls, first, firstPage, nreq, laterPages, exchangeReqs, storeCalls, emitted,
  \* an API call (api.rs), per call: the point it has reached, the operation,
  \* the token in its Authorization header, the value it returned,
  cpc, cop, ctok, cres,
  \* observations: requests put on the network, the status of the last
  \* response, how the keychain delete it made ended.
  creqs, cdel,
  \* per API call: what each lookup of a search_task_by_id call was answered,
  \* in order.
  clook,
  \* observation, since the last token an OAuth flow stored: "no" 401 was
  \* answered, or one whose keychain delete worked ("cleared"), or only such
  \* whose delete failed ("kept").
  invalidated,
  \* the contexts directory: the ids t with a file clickup-task-{t}.md,
  taskFiles,
  \* and per id i the file clickup-subtask-{i}.md: {} when there is none,
  \* {p} when its body holds the pointer `clickup-task-{p}.md`,
  subFiles,
  \* the Refs Store: per id i the sessions referencing the key clickup-{i}.
  refs,
  \* observation: the load or remove call just made, with what it was given
  \* and what it returned, until its caller has taken the result.
  lastOp,
  \* one parent context file as text: the task and subtask infos it was
  \* rendered from, its content, and the record listing reconstructs from it.
  rtask, rfile, rparsed,
  \* a load_clickup_task_context call followed step by step: what it was
  \* given, the point it has reached, the subtasks it still has to write,
  \* the files it has written and the keys it has registered.
  loading

oauthVars == <<portExt, pc, listener, browser, tx, chan, code, tok, result, errInfo,
               bindCalls, first, firstPage, nreq, laterPages, exchangeReqs,
               storeCalls, emitted>>

apiVars == <<cpc, cop, ctok, cres, creqs, cdel, clook>>

mdVars == <<rtask, rfile, rparsed>>

ctxVars == <<taskFiles, subFiles, refs, lastOp, mdVars, loading>>

vars == <<token, invalidated, oauthVars, apiVars, ctxVars>>

\* ------------------------------------------------------------- keychain.rs
\* store_clickup_token: set_password succeeds (ok) or fails; a failure
\* leaves the entry as it was.
store_clickup_token(t, ok) == IF ok THEN {t} ELSE token

\* delete_clickup_token: delete_credential succeeds, or finds no entry
\* (both Ok(())), or fails and leaves the entry as it was.
delete_clickup_token(ok) == IF ok THEN {} ELSE token

\* ----------------------------------------------------------------- auth.rs
\* The port is free when no other process and no live listener holds it.
HoldsPort(f) == listener[f] \in {"bound", "serving"}
PortFree == ~portExt /\ \A f \in Flows : ~HoldsPort(f)

\* The invocation returns Err(info) of the given kind.
Fail(f, kind, info) ==
  /\ pc' = [pc EXCEPT ![f] = "Failed"]
  /\ result' = [result EXCEPT ![f] = kind]
  /\ errInfo' = [errInfo EXCEPT ![f] = info]

Init ==
  /\ token \in {{}, StaleToken}
  /\ portExt = FALSE
  /\ pc = [f \in Flows |-> "Idle"]
  /\ listener = [f \in Flows |-> "none"]
  /\ browser = [f \in Flows |-> "none"]
  /\ tx = [f \in Flows |-> FALSE]
  /\ chan = [f \in Flows |-> {}]
  /\ code = [f \in Flows |-> {}]
  /\ tok = [f \in Flows |-> {}]
  /\ result = [f \in Flows |-> "pending"]
  /\ errInfo = [f \in Flows |-> ""]
  /\ bindCalls = [f \in Flows |-> 0]
  /\ first = [f \in Flows |-> {}]
  /\ firstPage = [f \in Flows |-> {}]
  /\ nreq = [f \in Flows |-> 0]
  /\ laterPages = [f \in Flows |-> {}]
  /\ exchangeReqs = [f \in Flows |-> <<>>]
  /\ storeCalls = [f \in Flows |-> 0]
  /\ emitted = [f \in Flows |-> 0]
  /\ cpc = [c \in Calls |-> "idle"]
  /\ cop = [c \in Calls |-> ""]
  /\ ctok = [c \in Calls |-> {}]
  /\ cres = [c \in Calls |-> "pending"]
  /\ creqs = [c \in Calls |-> 0]
  /\ cdel = [c \in Calls |-> "none"]
  /\ clook = [c \in Calls |-> <<>>]
  /\ invalidated = "no"
  /\ taskFiles = {}
  /\ lastOp = {}
  /\ rtask = {}
  /\ rfile = {}
  /\ rparsed = {}
  /\ loading = {}
  /\ subFiles = [i \in ContextIds |-> {}]
  /\ refs = [i \in ContextIds |-> {}]

\* Another process takes or releases the callback port.
ExtBind ==
  /\ PortFree
  /\ \E f \in Flows : pc[f] = "Idle"
  /\ portExt' = TRUE
  /\ UNCHANGED <<token, pc, listener, browser, tx, chan, code, tok, result, errInfo,
                 bindCalls, first, firstPage, nreq, laterPages, exchangeReqs,
                 storeCalls, emitted, invalidated, apiVars, ctxVars>>

ExtRelease ==
  /\ portExt
  /\ portExt' = FALSE
  /\ UNCHANGED <<token, pc, listener, browser, tx, chan, code, tok, result, errInfo,
                 bindCalls, first, firstPage, nreq, laterPages, exchangeReqs,
                 storeCalls, emitted, invalidated, apiVars, ctxVars>>

\* A StartBind whose listener shares the port with whoever holds it.
StartBindSharedPort(f, credsEmpty) ==
  /\ pc[f] = "Idle"
  /\ \A g \in Flows : g < f => pc[g] # "Idle"
  /\ IF credsEmpty
       THEN /\ Fail(f, "ConfigError", "")
            /\ UNCHANGED <<listener, bindCalls>>
       ELSE /\ bindCalls' = [bindCalls EXCEPT ![f] = @ + 1]
            /\ listener' = [listener EXCEPT ![f] = "bound"]
            /\ pc' = [pc EXCEPT ![f] = "ListenerBound"]
            /\ UNCHANGED <<result, errInfo>>
  /\ UNCHANGED <<token, portExt, browser, tx, chan, code, tok,
                 first, firstPage, nreq, laterPages, exchangeReqs, storeCalls, emitted,
                 invalidated, apiVars, ctxVars>>

\* A StartBind that opens the browser before it looks at the bind result.
StartBindBrowserFirst(f, credsEmpty) ==
  /\ pc[f] = "Idle"
  /\ \A g \in Flows : g < f => pc[g] # "Idle"
  /\ IF credsEmpty
       THEN /\ Fail(f, "ConfigError", "")
            /\ UNCHANGED <<listener, bindCalls, browser>>
       ELSE /\ bindCalls' = [bindCalls EXCEPT ![f] = @ + 1]
            /\ IF PortFree
                 THEN /\ listener' = [listener EXCEPT ![f] = "bound"]
                      /\ pc' = [pc EXCEPT ![f] = "ListenerBound"]
                      /\ UNCHANGED <<result, errInfo, browser>>
                 ELSE /\ Fail(f, "ListenerBindError", OAuthPort)
                      /\ browser' = [browser EXCEPT ![f] = "opened"]
                      /\ UNCHANGED listener
  /\ UNCHANGED <<token, portExt, tx, chan, code, tok,
                 first, firstPage, nreq, laterPages, exchangeReqs, storeCalls, emitted,
                 invalidated, apiVars, ctxVars>>

\* auth.rs:70-81: the credentials check and TcpListener::bind, up to the
\* first point the bound listener exists.  Invocations are numbered in the
\* order they are made.
StartBind(f, credsEmpty) ==
  /\ pc[f] = "Idle"
  /\ \A g \in Flows : g < f => pc[g] # "Idle"
  /\ IF credsEmpty
       THEN /\ Fail(f, "ConfigError", "")
            /\ UNCHANGED <<listener, bindCalls>>
       ELSE /\ bindCalls' = [bindCalls EXCEPT ![f] = @ + 1]
            /\ IF PortFree
                 THEN /\ listener' = [listener EXCEPT ![f] = "bound"]
                      /\ pc' = [pc EXCEPT ![f] = "ListenerBound"]
                      /\ UNCHANGED <<result, errInfo>>
                 ELSE /\ Fail(f, "ListenerBindError", OAuthPort)
                      /\ UNCHANGED listener
  /\ UNCHANGED <<token, portExt, browser, tx, chan, code, tok,
                 first, firstPage, nreq, laterPages, exchangeReqs, storeCalls, emitted, invalidated, apiVars, ctxVars>>

\* An OpenBrowser that leaks the listener when the spawn fails.
OpenBrowserKeepsListener(f, spawned) ==
  /\ pc[f] = "ListenerBound"
  /\ IF spawned
       THEN /\ browser' = [browser EXCEPT ![f] = "opened"]
            /\ pc' = [pc EXCEPT ![f] = "BrowserOpened"]
            /\ UNCHANGED <<result, errInfo>>
       ELSE /\ browser' = [browser EXCEPT ![f] = "failed"]
            /\ Fail(f, "BrowserLaunchError", "")
  /\ UNCHANGED <<token, portExt, listener, tx, chan, code, tok, bindCalls,
                 first, firstPage, nreq, laterPages, exchangeReqs, storeCalls, emitted,
                 invalidated, apiVars, ctxVars>>

\* An OpenBrowser that only logs a spawn failure and goes on.
OpenBrowserLenient(f, spawned) ==
  /\ pc[f] = "ListenerBound"
  /\ browser' = [browser EXCEPT ![f] = IF spawned THEN "opened" ELSE "failed"]
  /\ pc' = [pc EXCEPT ![f] = "BrowserOpened"]
  /\ UNCHANGED <<token, portExt, listener, result, errInfo, tx, chan, code, tok, bindCalls,
                 first, firstPage, nreq, laterPages, exchangeReqs, storeCalls, emitted,
                 invalidated, apiVars, ctxVars>>

\* auth.rs:83-89: open_in_browser(&auth_url)?  A spawn failure returns the
\* error from clickup_start_oauth, which drops the listener.
OpenBrowser(f, spawned) ==
  /\ pc[f] = "ListenerBound"
  /\ IF spawned
       THEN /\ browser' = [browser EXCEPT ![f] = "opened"]
            /\ pc' = [pc EXCEPT ![f] = "BrowserOpened"]
            /\ UNCHANGED <<listener, result, errInfo>>
       ELSE /\ browser' = [browser EXCEPT ![f] = "failed"]
            /\ listener' = [listener EXCEPT ![f] = "dropped"]
            /\ Fail(f, "BrowserLaunchError", "")
  /\ UNCHANGED <<token, portExt, tx, chan, code, tok, bindCalls,
                 first, firstPage, nreq, laterPages, exchangeReqs, storeCalls, emitted, invalidated, apiVars, ctxVars>>

\* auth.rs:91-130: the oneshot channel, the router and tokio::spawn of the
\* server; the invocation then waits on code_rx under the timeout.
SpawnServer(f) ==
  /\ pc[f] = "BrowserOpened"
  /\ tx' = [tx EXCEPT ![f] = TRUE]
  /\ listener' = [listener EXCEPT ![f] = "serving"]
  /\ pc' = [pc EXCEPT ![f] = "AwaitingCallback"]
  /\ UNCHANGED <<token, portExt, browser, chan, code, tok, result, errInfo, bindCalls,
                 first, firstPage, nreq, laterPages, exchangeReqs, storeCalls, emitted, invalidated, apiVars, ctxVars>>

\* A SignalFor that reports every failure with the default text.
SignalForGenericError(q) ==
  IF q.code # {}
    THEN [ok |-> TRUE, val |-> CHOOSE c \in q.code : TRUE]
    ELSE [ok |-> FALSE, val |-> "No authorization code received"]

\* A SignalFor that takes a missing code for an empty one.
SignalForDefaultCode(q) ==
  IF q.code # {} \/ q.error = {}
    THEN [ok |-> TRUE, val |-> IF q.code # {} THEN CHOOSE c \in q.code : TRUE ELSE 0]
    ELSE [ok |-> FALSE, val |-> CHOOSE e \in q.error : TRUE]

\* auth.rs:103-117: what the handler sends on the channel for query q when
\* guard.take() gave Some(tx): Ok(code) if a code is present, else Err(error)
\* with the default text when error is absent too.
SignalFor(q) ==
  IF q.code # {}
    THEN [ok |-> TRUE, val |-> CHOOSE c \in q.code : TRUE]
    ELSE [ok |-> FALSE,
          val |-> IF q.error # {} THEN CHOOSE e \in q.error : TRUE
                  ELSE "No authorization code received"]

\* A handler that signals on every request instead of the first only.
CallbackEveryRequest(f, q) ==
  /\ listener[f] = "serving"
  /\ nreq[f] < MaxCallbacks
  /\ nreq' = [nreq EXCEPT ![f] = @ + 1]
  /\ chan' = [chan EXCEPT ![f] = {SignalFor(q)}]
  /\ tx' = [tx EXCEPT ![f] = FALSE]
  /\ IF tx[f]
       THEN /\ first' = [first EXCEPT ![f] = {q}]
            /\ firstPage' = [firstPage EXCEPT ![f] =
                               {IF q.code # {} THEN SUCCESS_HTML ELSE ERROR_HTML}]
            /\ UNCHANGED laterPages
       ELSE /\ laterPages' = [laterPages EXCEPT ![f] = @ \cup {SUCCESS_HTML}]
            /\ UNCHANGED <<first, firstPage>>
  /\ UNCHANGED <<token, portExt, pc, listener, browser, code, tok, result, errInfo,
                 bindCalls, exchangeReqs, storeCalls, emitted, invalidated, apiVars, ctxVars>>

\* auth.rs:99-119: the GET /callback handler of flow f's server.
Callback(f, q) ==
  /\ listener[f] = "serving"
  /\ nreq[f] < MaxCallbacks
  /\ nreq' = [nreq EXCEPT ![f] = @ + 1]
  /\ IF tx[f]
       THEN /\ tx' = [tx EXCEPT ![f] = FALSE]
            /\ chan' = [chan EXCEPT ![f] = {SignalFor(q)}]
            /\ first' = [first EXCEPT ![f] = {q}]
            /\ firstPage' = [firstPage EXCEPT ![f] =
                               {IF q.code # {} THEN SUCCESS_HTML ELSE ERROR_HTML}]
            /\ UNCHANGED laterPages
       ELSE /\ laterPages' = [laterPages EXCEPT ![f] = @ \cup {SUCCESS_HTML}]
            /\ UNCHANGED <<tx, chan, first, firstPage>>
  /\ UNCHANGED <<token, portExt, pc, listener, browser, code, tok, result, errInfo,
                 bindCalls, exchangeReqs, storeCalls, emitted, invalidated, apiVars, ctxVars>>

\* A ReceiveSignal that leaves the server task running.
ReceiveSignalNoAbort(f) ==
  /\ pc[f] = "AwaitingCallback"
  /\ chan[f] # {}
  /\ LET r == CHOOSE r \in chan[f] : TRUE IN
       IF r.ok
         THEN /\ code' = [code EXCEPT ![f] = {r.val}]
              /\ pc' = [pc EXCEPT ![f] = "CodeReceived"]
              /\ UNCHANGED <<result, errInfo>>
         ELSE /\ Fail(f, "CallbackError", r.val)
              /\ UNCHANGED code
  /\ UNCHANGED <<token, portExt, listener, browser, tx, chan, tok, bindCalls,
                 first, firstPage, nreq, laterPages, exchangeReqs, storeCalls, emitted,
                 invalidated, apiVars, ctxVars>>

\* auth.rs:133-138: the wait ends with Ok(Ok(result)): the server task is
\* aborted, then `result?` returns the callback's error or yields the code.
ReceiveSignal(f) ==
  /\ pc[f] = "AwaitingCallback"
  /\ chan[f] # {}
  /\ listener' = [listener EXCEPT ![f] = "aborted"]
  /\ LET r == CHOOSE r \in chan[f] : TRUE IN
       IF r.ok
         THEN /\ code' = [code EXCEPT ![f] = {r.val}]
              /\ pc' = [pc EXCEPT ![f] = "CodeReceived"]
              /\ UNCHANGED <<result, errInfo>>
         ELSE /\ Fail(f, "CallbackError", r.val)
              /\ UNCHANGED code
  /\ UNCHANGED <<token, portExt, browser, tx, chan, tok, bindCalls,
                 first, firstPage, nreq, laterPages, exchangeReqs, storeCalls, emitted, invalidated, apiVars, ctxVars>>

\* A wait on the channel without a timeout.
WaitWithoutTimeout(f) ==
  /\ pc[f] = "AwaitingCallback"
  /\ FALSE
  /\ UNCHANGED vars

\* A Timeout that returns without aborting the server task.
TimeoutNoAbort(f) ==
  /\ pc[f] = "AwaitingCallback"
  /\ chan[f] = {}
  /\ Fail(f, "TimeoutError", "")
  /\ UNCHANGED <<token, portExt, listener, browser, tx, chan, code, tok, bindCalls,
                 first, firstPage, nreq, laterPages, exchangeReqs, storeCalls, emitted,
                 invalidated, apiVars, ctxVars>>

\* auth.rs:143-149: 300 seconds pass with nothing on the channel.
Timeout(f) ==
  /\ pc[f] = "AwaitingCallback"
  /\ chan[f] = {}
  /\ listener' = [listener EXCEPT ![f] = "aborted"]
  /\ Fail(f, "TimeoutError", "")
  /\ UNCHANGED <<token, portExt, browser, tx, chan, code, tok, bindCalls,
                 first, firstPage, nreq, laterPages, exchangeReqs, storeCalls, emitted, invalidated, apiVars, ctxVars>>

\* auth.rs:155, 175-185: exchange_code_for_token sends the POST.
ExchangeSend(f) ==
  /\ pc[f] = "CodeReceived"
  /\ exchangeReqs' = [exchangeReqs EXCEPT ![f] = Append(@, CHOOSE c \in code[f] : TRUE)]
  /\ pc' = [pc EXCEPT ![f] = "Exchanging"]
  /\ UNCHANGED <<token, portExt, listener, browser, tx, chan, code, tok, result, errInfo,
                 bindCalls, first, firstPage, nreq, laterPages, storeCalls, emitted, invalidated, apiVars, ctxVars>>

\* auth.rs:186-204: the POST fails in transport, or answers non-2xx, or
\* answers 2xx with a body that does not parse, or yields the access token.
ExchangeOutcomes == {"transport", "non2xx", "unparsable", "token"}

\* An ExchangeResponse that takes the token for stored.
ExchangeResponseSkipsStore(f, outcome) ==
  /\ pc[f] = "Exchanging"
  /\ IF outcome = "token"
       THEN /\ tok' = [tok EXCEPT ![f] = {TokenOf(f)}]
            /\ pc' = [pc EXCEPT ![f] = "Stored"]
            /\ UNCHANGED <<result, errInfo>>
       ELSE /\ Fail(f, "TokenExchangeError", outcome)
            /\ UNCHANGED tok
  /\ UNCHANGED <<token, portExt, listener, browser, tx, chan, code, bindCalls,
                 first, firstPage, nreq, laterPages, exchangeReqs, storeCalls, emitted, invalidated, apiVars, ctxVars>>

ExchangeResponse(f, outcome) ==
  /\ pc[f] = "Exchanging"
  /\ IF outcome = "token"
       THEN /\ tok' = [tok EXCEPT ![f] = {TokenOf(f)}]
            /\ pc' = [pc EXCEPT ![f] = "TokenExchanged"]
            /\ UNCHANGED <<result, errInfo>>
       ELSE /\ Fail(f, "TokenExchangeError", outcome)
            /\ UNCHANGED tok
  /\ UNCHANGED <<token, portExt, listener, browser, tx, chan, code, bindCalls,
                 first, firstPage, nreq, laterPages, exchangeReqs, storeCalls, emitted, invalidated, apiVars, ctxVars>>

\* A StoreToken that logs a failed keychain write and goes on.
StoreTokenLenient(f, ok) ==
  /\ pc[f] = "TokenExchanged"
  /\ storeCalls' = [storeCalls EXCEPT ![f] = @ + 1]
  /\ token' = store_clickup_token(CHOOSE t \in tok[f] : TRUE, ok)
  /\ invalidated' = IF ok THEN "no" ELSE invalidated
  /\ pc' = [pc EXCEPT ![f] = "Stored"]
  /\ UNCHANGED <<result, errInfo>>
  /\ UNCHANGED <<portExt, listener, browser, tx, chan, code, tok, bindCalls,
                 first, firstPage, nreq, laterPages, exchangeReqs, emitted, apiVars, ctxVars>>

\* auth.rs:158: keychain::store_clickup_token(&token)?
StoreToken(f, ok) ==
  /\ pc[f] = "TokenExchanged"
  /\ storeCalls' = [storeCalls EXCEPT ![f] = @ + 1]
  /\ token' = store_clickup_token(CHOOSE t \in tok[f] : TRUE, ok)
  /\ invalidated' = IF ok THEN "no" ELSE invalidated
  /\ IF ok
       THEN /\ pc' = [pc EXCEPT ![f] = "Stored"]
            /\ UNCHANGED <<result, errInfo>>
       ELSE Fail(f, "PersistError", "")
  /\ UNCHANGED <<portExt, listener, browser, tx, chan, code, tok, bindCalls,
                 first, firstPage, nreq, laterPages, exchangeReqs, emitted, apiVars, ctxVars>>

\* An EmitComplete that takes the stored token back when delivery fails.
EmitCompleteRollback(f, delivered) ==
  /\ pc[f] = "Stored"
  /\ IF delivered
       THEN /\ emitted' = [emitted EXCEPT ![f] = @ + 1]
            /\ pc' = [pc EXCEPT ![f] = "Complete"]
            /\ result' = [result EXCEPT ![f] = "Ok"]
            /\ UNCHANGED <<errInfo, token>>
       ELSE /\ Fail(f, "EmitError", "")
            /\ token' = {}
            /\ UNCHANGED emitted
  /\ UNCHANGED <<portExt, listener, browser, tx, chan, code, tok, bindCalls,
                 first, firstPage, nreq, laterPages, exchangeReqs, storeCalls, invalidated, apiVars, ctxVars>>

\* auth.rs:163-166: app.emit("clickup:auth-complete", ()) with `?`, then Ok(()).
EmitComplete(f, delivered) ==
  /\ pc[f] = "Stored"
  /\ IF delivered
       THEN /\ emitted' = [emitted EXCEPT ![f] = @ + 1]
            /\ pc' = [pc EXCEPT ![f] = "Complete"]
            /\ result' = [result EXCEPT ![f] = "Ok"]
            /\ UNCHANGED errInfo
       ELSE /\ Fail(f, "EmitError", "")
            /\ UNCHANGED emitted
  /\ UNCHANGED <<token, portExt, listener, browser, tx, chan, code, tok, bindCalls,
                 first, firstPage, nreq, laterPages, exchangeReqs, storeCalls, invalidated, apiVars, ctxVars>>

\* clickup_start_oauth, one step of invocation f.
clickup_start_oauth(f) ==
  \/ \E credsEmpty \in BOOLEAN : StartBind(f, credsEmpty)
  \/ \E spawned \in BOOLEAN : OpenBrowser(f, spawned)
  \/ SpawnServer(f)
  \/ \E q \in CallbackParams(nreq[f] + 1) : Callback(f, q)
  \/ ReceiveSignal(f)
  \/ Timeout(f)
  \/ ExchangeSend(f)
  \/ \E outcome \in ExchangeOutcomes : ExchangeResponse(f, outcome)
  \/ \E ok \in BOOLEAN : StoreToken(f, ok)
  \/ \E delivered \in BOOLEAN : EmitComplete(f, delivered)

\* ------------------------------------------------------------------ api.rs
\* The authenticated operations of api.rs.  Nine of them have one shape:
\* require_token()?, one request, check_response, parse the body.
SingleRequestOps == {"get_authorized_user", "list_workspaces", "list_spaces",
                     "list_tasks", "list_folders", "list_folderless_lists",
                     "list_tasks_in_list", "get_task", "get_task_comments"}
ApiOps == SingleRequestOps \cup {"search_task_by_id"}

\* Response statuses: success, unauthorized, too many requests, another failure.
Statuses == {200, 401, 429, 404}
\* In the record of a lookup: the request got no response.
NoResponse == 0
IsSuccess(status) == status >= 200 /\ status <= 299

\* What the environment decides about one response: its status, whether its
\* body parses (read on success only) and whether the keychain delete works
\* (made on 401 only).
Responses == {r \in [status : Statuses, parsed : BOOLEAN, deleted : BOOLEAN] :
                /\ (~IsSuccess(r.status) => r.parsed)
                /\ (r.status # 401 => r.deleted)}

\* The values a call returns: the variants of ClickUpApiError (api.rs:10-17)
\* with the AuthError texts of api.rs:45-48 and 73-75 told apart.
NotAuthenticated == "AuthError: not authenticated"
KeychainUnreadable == "AuthError: keychain error"
TokenInvalid == "AuthError: token is invalid or expired"

\* A require_token that hands on whatever the keychain read gave.
require_token_unchecked(readable) == [ok |-> TRUE, token |-> token, err |-> ""]

\* api.rs:42-50 require_token: Ok(token), or the AuthError when the keychain
\* holds no token or cannot be read (readable = FALSE).
require_token(readable) ==
  IF ~readable THEN [ok |-> FALSE, token |-> {}, err |-> KeychainUnreadable]
  ELSE IF token = {} THEN [ok |-> FALSE, token |-> {}, err |-> NotAuthenticated]
  ELSE [ok |-> TRUE, token |-> token, err |-> ""]

\* The call returns `value`; nothing else of the call outlives it.
Return(c, value) ==
  /\ cpc' = [cpc EXCEPT ![c] = "done"]
  /\ cres' = [cres EXCEPT ![c] = value]
  /\ ctok' = [ctok EXCEPT ![c] = {}]
  /\ cop' = [cop EXCEPT ![c] = ""]

\* The first lines of every operation (api.rs:103, 131, 158, 195, 241, 274,
\* 316, 365, 452, 484): require_token()?, then the request is sent with the
\* token as bearer.  The lowest free slot takes the call.
ApiBegin(c, op, readable) ==
  /\ cpc[c] = "idle"
  /\ \A d \in Calls : d < c => cpc[d] # "idle"
  /\ cdel' = [cdel EXCEPT ![c] = "none"]
  /\ IF require_token(readable).ok
       THEN /\ cop' = [cop EXCEPT ![c] = op]
            /\ ctok' = [ctok EXCEPT ![c] = require_token(readable).token]
            /\ creqs' = [creqs EXCEPT ![c] = 1]
            /\ cpc' = [cpc EXCEPT ![c] = "sent"]
            /\ cres' = [cres EXCEPT ![c] = "pending"]
       ELSE /\ Return(c, require_token(readable).err)
            /\ creqs' = [creqs EXCEPT ![c] = 0]
  /\ UNCHANGED <<token, invalidated, clook, oauthVars, ctxVars>>

\* A lookup of search_task_by_id is answered with `status`; parsed tells
\* whether a success body is a task.  NoResponse stands for a request that
\* failed in transport.
Looked(c, status, parsed) ==
  clook' = [clook EXCEPT ![c] = Append(@, [status |-> status, parsed |-> parsed])]

\* `.send().await.map_err(..)?`: the request fails in transport.
ApiTransportError(c) ==
  /\ cpc[c] \in {"sent", "sent2"}
  /\ Return(c, "RequestError")
  /\ IF cop[c] = "search_task_by_id" THEN Looked(c, NoResponse, FALSE) ELSE UNCHANGED clook
  /\ UNCHANGED <<token, invalidated, creqs, cdel, oauthVars, ctxVars>>

\* api.rs:54-98 check_response, as the value it returns: "Ok" stands for
\* Ok(response).  The remaining-quota header only logs.
check_response(status) ==
  IF status = 401 THEN TokenInvalid
  ELSE IF status = 429 THEN "RateLimited"
  ELSE IF ~IsSuccess(status) THEN "RequestError"
  ELSE "Ok"

\* An OnStatus that leaves the keychain alone on 401.
OnStatusKeepToken(c, status, deleted) ==
  /\ token' = token
  /\ cdel' = [cdel EXCEPT ![c] = "none"]
  /\ invalidated' = IF status # 401 THEN invalidated
                    ELSE IF deleted \/ invalidated = "cleared" THEN "cleared"
                    ELSE "kept"

\* An OnStatus that clears the keychain on 429 too.
OnStatusClearOn429(c, status, deleted) ==
  /\ token' = IF status \in {401, 429} THEN delete_clickup_token(deleted) ELSE token
  /\ cdel' = [cdel EXCEPT ![c] = IF status # 401 THEN "none"
                                   ELSE IF deleted THEN "ok" ELSE "failed"]
  /\ invalidated' = IF status # 401 THEN invalidated
                    ELSE IF deleted \/ invalidated = "cleared" THEN "cleared"
                    ELSE "kept"

\* api.rs:69-76, 378-381, 421-424: on 401 the stored token is deleted and
\* the outcome of the delete is ignored (`let _ =`).
OnStatus(c, status, deleted) ==
  /\ token' = IF status = 401 THEN delete_clickup_token(deleted) ELSE token
  /\ cdel' = [cdel EXCEPT ![c] = IF status # 401 THEN "none"
                                   ELSE IF deleted THEN "ok" ELSE "failed"]
  /\ invalidated' = IF status # 401 THEN invalidated
                    ELSE IF deleted \/ invalidated = "cleared" THEN "cleared"
                    ELSE "kept"

\* The response to a single-request operation arrives: check_response(..)?,
\* then the body is parsed (parsed = FALSE: response.json() fails).
ApiResponse(c, status, parsed, deleted) ==
  /\ cpc[c] = "sent"
  /\ cop[c] \in SingleRequestOps
  /\ OnStatus(c, status, deleted)
  /\ Return(c, IF check_response(status) # "Ok" THEN check_response(status)
                ELSE IF parsed THEN "Ok" ELSE "RequestError")
  /\ UNCHANGED <<creqs, clook, oauthVars, ctxVars>>

\* A SearchLookup that treats every non-success status as the other
\* operations do.
SearchLookupStrict(status, parsed) ==
  IF status = 401 THEN TokenInvalid
  ELSE IF status = 429 THEN "RateLimited"
  ELSE IF ~IsSuccess(status) THEN "RequestError"
  ELSE IF parsed THEN "found"
  ELSE "next"

\* api.rs:376-402 and 418-445: search_task_by_id's own match on the status
\* of a lookup: the two errors return at once, "found" returns
\* Ok(Some(task)), "next" goes on to what follows the match.
SearchLookup(status, parsed) ==
  IF status = 401 THEN TokenInvalid
  ELSE IF status = 429 THEN "RateLimited"
  ELSE IF IsSuccess(status) /\ parsed THEN "found"
  ELSE "next"

\* A SearchFirstResponse that sends the custom-ID lookup after a 429 too.
SearchFirstResponseGoesOn(c, status, parsed, deleted) ==
  /\ cpc[c] = "sent"
  /\ cop[c] = "search_task_by_id"
  /\ OnStatus(c, status, deleted)
  /\ Looked(c, status, parsed)
  /\ IF SearchLookup(status, parsed) \in {"next", "RateLimited"}
       THEN /\ cpc' = [cpc EXCEPT ![c] = "sent2"]
            /\ creqs' = [creqs EXCEPT ![c] = @ + 1]
            /\ UNCHANGED <<cres, ctok, cop>>
       ELSE /\ Return(c, IF SearchLookup(status, parsed) = "found" THEN "OkSome"
                          ELSE SearchLookup(status, parsed))
            /\ UNCHANGED creqs
  /\ UNCHANGED <<oauthVars, ctxVars>>

\* api.rs:367-415: the internal-ID lookup answers; if inconclusive the
\* custom-ID lookup is sent.
SearchFirstResponse(c, status, parsed, deleted) ==
  /\ cpc[c] = "sent"
  /\ cop[c] = "search_task_by_id"
  /\ OnStatus(c, status, deleted)
  /\ Looked(c, status, parsed)
  /\ IF SearchLookup(status, parsed) = "next"
       THEN /\ cpc' = [cpc EXCEPT ![c] = "sent2"]
            /\ creqs' = [creqs EXCEPT ![c] = @ + 1]
            /\ UNCHANGED <<cres, ctok, cop>>
       ELSE /\ Return(c, IF SearchLookup(status, parsed) = "found" THEN "OkSome"
                          ELSE SearchLookup(status, parsed))
            /\ UNCHANGED creqs
  /\ UNCHANGED <<oauthVars, ctxVars>>

\* api.rs:418-447: the custom-ID lookup answers; if inconclusive, Ok(None).
SearchSecondResponse(c, status, parsed, deleted) ==
  /\ cpc[c] = "sent2"
  /\ OnStatus(c, status, deleted)
  /\ Looked(c, status, parsed)
  /\ Return(c, IF SearchLookup(status, parsed) = "found" THEN "OkSome"
                ELSE IF SearchLookup(status, parsed) = "next" THEN "OkNone"
                ELSE SearchLookup(status, parsed))
  /\ UNCHANGED <<creqs, oauthVars, ctxVars>>

\* The caller has taken the returned value; the slot is free again.
ApiForget(c) ==
  /\ cpc[c] = "done"
  /\ cpc' = [cpc EXCEPT ![c] = "idle"]
  /\ cres' = [cres EXCEPT ![c] = "pending"]
  /\ creqs' = [creqs EXCEPT ![c] = 0]
  /\ cdel' = [cdel EXCEPT ![c] = "none"]
  /\ clook' = [clook EXCEPT ![c] = <<>>]
  /\ UNCHANGED <<token, invalidated, ctok, cop, oauthVars, ctxVars>>

\* commands.rs:66-72 clickup_logout: keychain::delete_clickup_token()?
clickup_logout(deleted) ==
  /\ token' = delete_clickup_token(deleted)
  /\ UNCHANGED <<invalidated, oauthVars, apiVars, ctxVars>>

ApiCall(c) ==
  \/ \E op \in ApiOps, readable \in BOOLEAN : ApiBegin(c, op, readable)
  \/ ApiTransportError(c)
  \/ \E r \in Responses :
       \/ ApiResponse(c, r.status, r.parsed, r.deleted)
       \/ SearchFirstResponse(c, r.status, r.parsed, r.deleted)
       \/ SearchSecondResponse(c, r.status, r.parsed, r.deleted)
  \/ ApiForget(c)

\* The API calls, logout and one OAuth invocation, interleaved.
NextApi ==
  \/ \E c \in Calls : ApiCall(c)
  \/ \E deleted \in BOOLEAN : clickup_logout(deleted)
  \/ clickup_start_oauth(1)

SpecApi == Init /\ [][NextApi]_vars

\* ---------------------------------------------- api.rs: check_response
\* String::parse::<u64> on the text of a header value: Some(n) for decimal
\* digits, None otherwise.
ParseU64(text) ==
  IF text = "5" THEN {5}
  ELSE IF text = "10" THEN {10}
  ELSE IF text = "50" THEN {50}
  ELSE IF text = "1700" THEN {1700}
  ELSE {}

\* headers().get(name).and_then(to_str).and_then(parse): header is an Option.
HeaderU64(header) == UNION {ParseU64(text) : text \in header}

\* Statuses a response may carry, two of each class that is not singled out.
PolicyStatuses == {200, 204, 401, 429, 404, 500}

\* A response as check_response reads it: status, the two rate-limit headers,
\* and the body text ({} when reading it fails).
PolicyResponses == [status : PolicyStatuses,
                    remaining : {{}} \cup {{t} : t \in {"5", "10", "50", "soon"}},
                    reset : {{}} \cup {{t} : t \in {"1700", "soon", "-1"}},
                    body : {{}, {"body"}}]

\* api.rs:56-65: whether the low-quota warning is logged.
LowQuotaWarning(resp) == \E n \in HeaderU64(resp.remaining) : n < 10

\* A check_response that fails a response whose remaining quota is low.
check_response_low_quota_fails(resp) ==
  IF resp.status = 401
    THEN [kind |-> TokenInvalid, reset_at |-> {}, status |-> {}, body |-> {}]
  ELSE IF resp.status = 429 \/ LowQuotaWarning(resp)
    THEN [kind |-> "RateLimited", reset_at |-> HeaderU64(resp.reset), status |-> {}, body |-> {}]
  ELSE IF ~IsSuccess(resp.status)
    THEN [kind |-> "RequestError", reset_at |-> {}, status |-> {resp.status},
          body |-> IF resp.body = {} THEN {"Unknown error"} ELSE resp.body]
  ELSE [kind |-> "Ok", reset_at |-> {}, status |-> {}, body |-> {}]

\* api.rs:54-98 check_response with what its errors carry: reset_at of
\* RateLimited, and the status and body put in the text of RequestError.
check_response_value(resp) ==
  IF resp.status = 401
    THEN [kind |-> TokenInvalid, reset_at |-> {}, status |-> {}, body |-> {}]
  ELSE IF resp.status = 429
    THEN [kind |-> "RateLimited", reset_at |-> HeaderU64(resp.reset), status |-> {}, body |-> {}]
  ELSE IF ~IsSuccess(resp.status)
    THEN [kind |-> "RequestError", reset_at |-> {}, status |-> {resp.status},
          body |-> IF resp.body = {} THEN {"Unknown error"} ELSE resp.body]
  ELSE [kind |-> "Ok", reset_at |-> {}, status |-> {}, body |-> {}]

\* One call of check_response on a response, observed: the keychain delete
\* on 401 included.
CheckResponseCall(resp, deleted) ==
  /\ OnStatus(1, resp.status, deleted)
  /\ lastOp' = {[op |-> "check_response", resp |-> resp, warned |-> LowQuotaWarning(resp),
                 out |-> check_response_value(resp)]}
  /\ UNCHANGED <<cpc, cop, ctok, cres, creqs, clook, oauthVars, taskFiles, subFiles, refs, mdVars, loading>>

\* The caller has taken the value.
CheckResponseTaken ==
  /\ lastOp # {}
  /\ lastOp' = {}
  /\ cdel' = [cdel EXCEPT ![1] = "none"]
  /\ UNCHANGED <<token, invalidated, cpc, cop, ctok, cres, creqs, clook, oauthVars,
                 taskFiles, subFiles, refs, mdVars, loading>>

NextPolicy ==
  \/ /\ lastOp = {}
     /\ \E resp \in PolicyResponses, deleted \in BOOLEAN :
          (resp.status # 401 => deleted) /\ CheckResponseCall(resp, deleted)
  \/ CheckResponseTaken

SpecPolicy == Init /\ [][NextPolicy]_vars

\* ------------------------------------------- commands.rs: task contexts
\* The Refs Store (crate::projects::github_issues).  add registers session s
\* for the key of task i.
add_clickup_task_reference(r, i, s) == [r EXCEPT ![i] = @ \cup {s}]

\* remove drops session s from the key of task i and reports whether the key
\* is now orphaned: no session references it any more.
remove_clickup_task_reference(r, i, s) ==
  [refs |-> [r EXCEPT ![i] = @ \ {s}], is_orphaned |-> (r[i] \ {s}) = {}]

\* A workspace task listing: the listed tasks, each with its `parent`.
Listings ==
  UNION {{l \in [D -> {{}} \cup {{p} : p \in TaskIds}] : \A i \in D : l[i] # {i}} :
         D \in SUBSET TaskIds}

\* commands.rs:369-378: the tasks of the listing whose parent is task_id;
\* a failed listing (the Result is {}) gives none (unwrap_or_default).
SubtaskTasks(subtasks_result, task_id) ==
  IF subtasks_result = {} THEN {}
  ELSE LET listing == CHOOSE l \in subtasks_result : TRUE IN
         {i \in DOMAIN listing : listing[i] = {task_id}}

\* What the remote side decides about one load: whether the task detail and
\* the comments are fetched, the listing (or its failure), and the subtasks
\* for which the detail or the comments fetch fails.
LoadInputs == [taskOk : BOOLEAN, commentsOk : BOOLEAN,
               subtasks_result : {{}} \cup {{l} : l \in Listings},
               failing : SUBSET TaskIds]

\* commands.rs:358-365 and 385-431: `task_result?` and `comments_result?`
\* decide whether the load goes on; the subtasks written are those of the
\* listing whose two fetches both succeeded.
LoadPlan(in, task_id) ==
  [ok |-> in.taskOk /\ in.commentsOk,
   written |-> SubtaskTasks(in.subtasks_result, task_id) \ in.failing]

\* The plans the inputs can give for each task.
LoadPlans == [t \in TaskIds |-> {LoadPlan(in, t) : in \in LoadInputs}]

\* The sessions' references after the loop of commands.rs:400-431 and line
\* 443 have registered the written subtasks, then the parent.
RefsAfterLoad(written, task_id, session_id) ==
  [i \in ContextIds |->
     IF i \in written \cup {task_id}
       THEN add_clickup_task_reference(refs, i, session_id)[i]
       ELSE refs[i]]

\* A load that writes the parent file before it looks at the fetch results.
LoadWritesBeforeCheck(session_id, task_id, plan) ==
  IF plan.ok
    THEN /\ subFiles' = [i \in ContextIds |-> IF i \in plan.written THEN {task_id}
                                            ELSE subFiles[i]]
         /\ taskFiles' = taskFiles \cup {task_id}
         /\ refs' = RefsAfterLoad(plan.written, task_id, session_id)
    ELSE /\ taskFiles' = taskFiles \cup {task_id}
         /\ UNCHANGED <<subFiles, refs>>

\* commands.rs:364-443: what load_clickup_task_context writes under one
\* plan: nothing when `task_result?` or `comments_result?` returns, else the
\* subtask files and references, then the parent file and its reference.
LoadWrites(session_id, task_id, plan) ==
  IF plan.ok
    THEN /\ subFiles' = [i \in ContextIds |-> IF i \in plan.written THEN {task_id}
                                            ELSE subFiles[i]]
         /\ taskFiles' = taskFiles \cup {task_id}
         /\ refs' = RefsAfterLoad(plan.written, task_id, session_id)
    ELSE UNCHANGED <<taskFiles, subFiles, refs>>

\* commands.rs:349-460 load_clickup_task_context, under one plan.
load_clickup_task_context(session_id, task_id, plan) ==
  /\ LoadWrites(session_id, task_id, plan)
  /\ UNCHANGED <<lastOp, mdVars, loading, token, invalidated, oauthVars, apiVars>>

\* What the remote side decides about one load of task t, as far as the
\* load can tell: which of the three fetches succeed, the subtasks the
\* listing gives for t (none when it fails) and those among them with a
\* failing detail or comments fetch.
LoadCases ==
  [t \in ContextIds |->
     {c \in [taskOk : BOOLEAN, commentsOk : BOOLEAN, listingOk : BOOLEAN,
             subtasks : SUBSET (ContextIds \ {t}), failing : SUBSET (ContextIds \ {t})] :
        /\ c.failing \subseteq c.subtasks
        /\ Cardinality(c.subtasks) <= MaxSubtasks
        /\ ~c.listingOk => c.subtasks = {}}]

\* commands.rs:364-365, 385-431: the plan a case gives (LoadPlan of its input).
PlanOf(c) == [ok |-> c.taskOk /\ c.commentsOk, written |-> c.subtasks \ c.failing]

\* A load that counts every subtask of the listing.
LoadReturnCountsListed(c) ==
  IF ~c.taskOk THEN [ok |-> FALSE, err |-> "get_task", subtask_count |-> 0, listed |-> {}]
  ELSE IF ~c.commentsOk
    THEN [ok |-> FALSE, err |-> "get_task_comments", subtask_count |-> 0, listed |-> {}]
  ELSE [ok |-> TRUE, err |-> "", subtask_count |-> Cardinality(c.subtasks),
        listed |-> c.subtasks \ c.failing]

\* commands.rs:364-365, 433-459: the value load_clickup_task_context
\* returns, with the subtasks the parent file it wrote lists (subtask_infos):
\* the error of the task fetch, else of the comments fetch, else Ok with
\* subtask_count = subtask_infos.len().
LoadReturn(c) ==
  IF ~c.taskOk THEN [ok |-> FALSE, err |-> "get_task", subtask_count |-> 0, listed |-> {}]
  ELSE IF ~c.commentsOk
    THEN [ok |-> FALSE, err |-> "get_task_comments", subtask_count |-> 0, listed |-> {}]
  ELSE [ok |-> TRUE, err |-> "", subtask_count |-> Cardinality(c.subtasks \ c.failing),
        listed |-> c.subtasks \ c.failing]

\* load_clickup_task_context is called and its caller sees what it returns.
LoadCall(session_id, task_id, c) ==
  /\ lastOp = {}
  /\ LoadWrites(session_id, task_id, PlanOf(c))
  /\ lastOp' = {[op |-> "load", session_id |-> session_id, task_id |-> task_id,
                  case |-> c, out |-> LoadReturn(c)]}
  /\ UNCHANGED <<mdVars, loading, token, invalidated, oauthVars, apiVars>>

\* commands.rs:587-598: the subtask files whose body contains the parent's
\* file name.
SubtaskFilesOf(task_id) == {i \in ContextIds : subFiles[i] = {task_id}}

\* A remove that deletes the files whatever the Refs Store reports.
RemoveWritesAlways(session_id, task_id) ==
  LET removed == remove_clickup_task_reference(refs, task_id, session_id) IN
    /\ taskFiles' = taskFiles \ {task_id}
    /\ subFiles' = [i \in ContextIds |-> IF i \in SubtaskFilesOf(task_id)
                                        THEN {} ELSE subFiles[i]]
    /\ refs' = [i \in ContextIds |->
                  IF i \in SubtaskFilesOf(task_id)
                    THEN remove_clickup_task_reference(
                           removed.refs, i, session_id).refs[i]
                    ELSE removed.refs[i]]

\* commands.rs:572-616: what remove_clickup_task_context changes.
RemoveWrites(session_id, task_id) ==
  LET removed == remove_clickup_task_reference(refs, task_id, session_id) IN
    IF removed.is_orphaned
      THEN /\ taskFiles' = taskFiles \ {task_id}
           /\ subFiles' = [i \in ContextIds |-> IF i \in SubtaskFilesOf(task_id)
                                               THEN {} ELSE subFiles[i]]
           /\ refs' = [i \in ContextIds |->
                         IF i \in SubtaskFilesOf(task_id)
                           THEN remove_clickup_task_reference(
                                  removed.refs, i, session_id).refs[i]
                           ELSE removed.refs[i]]
      ELSE /\ refs' = removed.refs
           /\ UNCHANGED <<taskFiles, subFiles>>

\* commands.rs:564-620 remove_clickup_task_context.
remove_clickup_task_context(session_id, task_id) ==
  /\ RemoveWrites(session_id, task_id)
  /\ UNCHANGED <<lastOp, mdVars, loading, token, invalidated, oauthVars, apiVars>>

\* The call just made was remove_clickup_task_context(session_id, task_id),
\* made once.
RemovedOnce(session_id, task_id) ==
  \E r \in lastOp :
    r.op = "remove" /\ r.session_id = session_id /\ r.task_id = task_id /\ ~r.repeat

\* A remove that deletes the parent file without looking whether it exists.
RemoveCallNoExistsCheck(session_id, task_id) ==
  /\ lastOp = {} \/ RemovedOnce(session_id, task_id)
  /\ RemoveWrites(session_id, task_id)
  /\ lastOp' = {[op |-> "remove", session_id |-> session_id, task_id |-> task_id,
                  repeat |-> lastOp # {},
                  is_orphaned |->
                    remove_clickup_task_reference(refs, task_id, session_id).is_orphaned,
                  ok |-> ~(remove_clickup_task_reference(refs, task_id, session_id).is_orphaned
                           /\ task_id \notin taskFiles)]}
  /\ UNCHANGED <<mdVars, loading, token, invalidated, oauthVars, apiVars>>

\* remove_clickup_task_context is called, for the first time or again right
\* after the same call, and its caller sees what it returns: Ok(()), as the
\* parent file is deleted only `if context_file.exists()` (commands.rs:579)
\* and what the scan of the subtask files meets is ignored (605-609).
RemoveCall(session_id, task_id) ==
  /\ lastOp = {} \/ RemovedOnce(session_id, task_id)
  /\ RemoveWrites(session_id, task_id)
  /\ lastOp' = {[op |-> "remove", session_id |-> session_id, task_id |-> task_id,
                  repeat |-> lastOp # {},
                  is_orphaned |->
                    remove_clickup_task_reference(refs, task_id, session_id).is_orphaned,
                  ok |-> TRUE]}
  /\ UNCHANGED <<mdVars, loading, token, invalidated, oauthVars, apiVars>>

NextCtx ==
  \/ \E s \in Sessions, t \in TaskIds : \E plan \in LoadPlans[t] :
       load_clickup_task_context(s, t, plan)
  \/ \E s \in Sessions, t \in TaskIds : remove_clickup_task_context(s, t)

SpecCtx == Init /\ [][NextCtx]_vars

\* The state after construction with nothing in the keychain.
InitSignedOut == Init /\ token = {}

\* Nothing has been loaded yet.
NoContexts == taskFiles = {} /\ \A i \in ContextIds : subFiles[i] = {} /\ refs[i] = {}

\* A first load into the empty directory, then a load that is observed.
NextLoad ==
  \/ /\ NoContexts /\ lastOp = {}
     /\ \E s \in Sessions, t \in ContextIds : \E c \in LoadCases[t] :
          load_clickup_task_context(s, t, PlanOf(c))
  \/ /\ lastOp = {}
     /\ \E s \in Sessions, t \in ContextIds : \E c \in LoadCases[t] : LoadCall(s, t, c)

SpecLoad == InitSignedOut /\ [][NextLoad]_vars

\* The sessions load and remove contexts; then one remove is observed, and
\* the same call made once more.
NextRemove ==
  \/ /\ lastOp = {}
     /\ \E s \in Sessions, t \in TaskIds : \E plan \in LoadPlans[t] :
          load_clickup_task_context(s, t, plan)
  \/ /\ lastOp = {}
     /\ \E s \in Sessions, t \in TaskIds : remove_clickup_task_context(s, t)
  \/ \E s \in Sessions, t \in TaskIds : RemoveCall(s, t)

SpecRemove == InitSignedOut /\ [][NextRemove]_vars

\* C1: after any sequence of completed load and remove operations, a context
\* file (clickup-task-{i}.md or clickup-subtask-{i}.md) exists on disk if and
\* only if its reference key clickup-{i} has at least one session reference.
C1_FileIffReferenced ==
  \A i \in TaskIds : (i \in taskFiles \/ subFiles[i] # {}) <=> refs[i] # {}

NextOAuth ==
  \/ ExtBind
  \/ ExtRelease
  \/ \E f \in Flows : clickup_start_oauth(f)

SpecOAuth == Init /\ [][NextOAuth]_vars


\* The steps of invocation f that are the application's own or that the
\* environment finishes once they are started: the browser launch, the spawn
\* of the server, the end of the wait on the channel (a signal or the 300 s
\* timeout), the token exchange and its response, the keychain write and the
\* event.  Making the call, and a callback request, are not among them.
FlowProgress(f) ==
  \/ \E spawned \in BOOLEAN : OpenBrowser(f, spawned)
  \/ SpawnServer(f)
  \/ ReceiveSignal(f)
  \/ Timeout(f)
  \/ ExchangeSend(f)
  \/ \E outcome \in ExchangeOutcomes : ExchangeResponse(f, outcome)
  \/ \E ok \in BOOLEAN : StoreToken(f, ok)
  \/ \E delivered \in BOOLEAN : EmitComplete(f, delivered)

\* One invocation, with the port at times held by someone else (to the
\* invocation another invocation is no more than that), and every step it
\* starts finishing.
NextOAuthOne ==
  \/ ExtBind
  \/ ExtRelease
  \/ clickup_start_oauth(1)

SpecOAuthLive == Init /\ [][NextOAuthOne]_vars /\ WF_vars(FlowProgress(1))

\* The invocations of clickup_start_oauth alone: nothing but the
\* application uses the callback port.
NextRestart == \E f \in Flows : clickup_start_oauth(f)

SpecRestart == Init /\ [][NextRestart]_vars

\* ---------------------------------- commands.rs: a load, step by step
\* The orders in which the fetched subtasks can come out of join_all.
OrdersOf(S) ==
  {q \in [1..Cardinality(S) -> S] : \A j, k \in 1..Cardinality(S) : q[j] = q[k] => j = k}

\* The call leaves the step it is in.
LoadGoes(l, point, todo, written, registered) ==
  loading' = {[l EXCEPT !.point = point, !.todo = todo, !.written = written,
                        !.registered = registered]}

\* A load that registers the parent's reference as soon as the fetches are in.
LoadBeginRegistersParent(session_id, task_id, c, order) ==
  /\ loading = {}
  /\ loading' = {[session_id |-> session_id, task_id |-> task_id, todo |-> order,
                  point |-> IF ~(c.taskOk /\ c.commentsOk) THEN "Err"
                            ELSE IF order = <<>> THEN "parent_file" ELSE "subtask_file",
                  written |-> {},
                  registered |-> IF c.taskOk /\ c.commentsOk THEN {task_id} ELSE {}]}
  /\ refs' = IF c.taskOk /\ c.commentsOk
               THEN add_clickup_task_reference(refs, task_id, session_id) ELSE refs
  /\ UNCHANGED <<taskFiles, subFiles, lastOp, mdVars, token, invalidated, oauthVars, apiVars>>

\* commands.rs:358-398: the fetches are in; `task_result?` and
\* `comments_result?` end the call, otherwise the subtasks whose two fetches
\* succeeded are gone through in order.
LoadBegin(session_id, task_id, c, order) ==
  /\ loading = {}
  /\ loading' = {[session_id |-> session_id, task_id |-> task_id, todo |-> order,
                  point |-> IF ~(c.taskOk /\ c.commentsOk) THEN "Err"
                            ELSE IF order = <<>> THEN "parent_file" ELSE "subtask_file",
                  written |-> {}, registered |-> {}]}
  /\ UNCHANGED <<taskFiles, subFiles, refs, lastOp, mdVars, token, invalidated, oauthVars, apiVars>>

\* commands.rs:411-417: std::fs::write of clickup-subtask-{sub_id}.md, with `?`.
LoadWriteSubtaskFile(written_ok) ==
  \E l \in loading :
    /\ l.point = "subtask_file"
    /\ IF written_ok
         THEN /\ subFiles' = [subFiles EXCEPT ![Head(l.todo)] = {l.task_id}]
              /\ LoadGoes(l, "subtask_ref", l.todo, l.written \cup {Head(l.todo)}, l.registered)
         ELSE /\ LoadGoes(l, "Err", l.todo, l.written, l.registered)
              /\ UNCHANGED subFiles
    /\ UNCHANGED <<taskFiles, refs, lastOp, mdVars, token, invalidated, oauthVars, apiVars>>

\* commands.rs:419-420: add_clickup_task_reference for the subtask, with `?`.
LoadAddSubtaskRef(added) ==
  \E l \in loading :
    /\ l.point = "subtask_ref"
    /\ IF added
         THEN /\ refs' = add_clickup_task_reference(refs, Head(l.todo), l.session_id)
              /\ LoadGoes(l, IF Tail(l.todo) = <<>> THEN "parent_file" ELSE "subtask_file",
                          Tail(l.todo), l.written, l.registered \cup {Head(l.todo)})
         ELSE /\ LoadGoes(l, "Err", l.todo, l.written, l.registered)
              /\ UNCHANGED refs
    /\ UNCHANGED <<taskFiles, subFiles, lastOp, mdVars, token, invalidated, oauthVars, apiVars>>

\* commands.rs:435-440: std::fs::write of clickup-task-{task_id}.md, with `?`.
LoadWriteParentFile(written_ok) ==
  \E l \in loading :
    /\ l.point = "parent_file"
    /\ IF written_ok
         THEN /\ taskFiles' = taskFiles \cup {l.task_id}
              /\ LoadGoes(l, "parent_ref", l.todo, l.written \cup {l.task_id}, l.registered)
         ELSE /\ LoadGoes(l, "Err", l.todo, l.written, l.registered)
              /\ UNCHANGED taskFiles
    /\ UNCHANGED <<subFiles, refs, lastOp, mdVars, token, invalidated, oauthVars, apiVars>>

\* commands.rs:442-459: add_clickup_task_reference for the parent, with `?`,
\* then Ok(..).
LoadAddParentRef(added) ==
  \E l \in loading :
    /\ l.point = "parent_ref"
    /\ IF added
         THEN /\ refs' = add_clickup_task_reference(refs, l.task_id, l.session_id)
              /\ LoadGoes(l, "Ok", l.todo, l.written, l.registered \cup {l.task_id})
         ELSE /\ LoadGoes(l, "Err", l.todo, l.written, l.registered)
              /\ UNCHANGED refs
    /\ UNCHANGED <<taskFiles, subFiles, lastOp, mdVars, token, invalidated, oauthVars, apiVars>>

\* One load into the empty directory, then one load followed step by step.
NextLoadSteps ==
  \/ /\ NoContexts
     /\ loading = {}
     /\ \E s \in Sessions, t \in ContextIds : \E c \in LoadCases[t] :
          load_clickup_task_context(s, t, PlanOf(c))
  \/ /\ loading = {}
     /\ \E s \in Sessions, t \in ContextIds : \E c \in LoadCases[t] :
          \E order \in OrdersOf(c.subtasks \ c.failing) : LoadBegin(s, t, c, order)
  \/ \E ok \in BOOLEAN :
       \/ LoadWriteSubtaskFile(ok)
       \/ LoadAddSubtaskRef(ok)
       \/ LoadWriteParentFile(ok)
       \/ LoadAddParentRef(ok)

SpecLoadSteps == InitSignedOut /\ [][NextLoadSteps]_vars

\* ------------------------------------- commands.rs: listing the contexts
\* The Refs Store's get_session_clickup_task_refs: the keys referenced under
\* an id, here in ascending order of the task id.
RECURSIVE KeysFrom(_, _, _)
KeysFrom(r, s, i) ==
  IF i \notin ContextIds THEN <<>>
  ELSE (IF s \in r[i] THEN <<i>> ELSE <<>>) \o KeysFrom(r, s, i + 1)

get_session_clickup_task_refs(r, s) == KeysFrom(r, s, 1)

Contains(keys, key) == \E k \in 1..Len(keys) : keys[k] = key

\* A merge that appends every key of the worktree.
MergeKeysAll(task_keys, wt_keys) == task_keys \o wt_keys

\* commands.rs:474-482: the worktree's keys are pushed unless already there.
RECURSIVE MergeKeys(_, _)
MergeKeys(task_keys, wt_keys) ==
  IF wt_keys = <<>> THEN task_keys
  ELSE MergeKeys(IF Contains(task_keys, Head(wt_keys)) THEN task_keys
                 ELSE Append(task_keys, Head(wt_keys)),
                 Tail(wt_keys))

\* commands.rs:464-559 list_loaded_clickup_task_contexts, as the ids of the
\* records it returns: one per key whose clickup-task-{id}.md can be read.
list_loaded_clickup_task_contexts(session_id, worktree_id) ==
  LET session_keys == get_session_clickup_task_refs(refs, session_id)
      task_keys == IF worktree_id = {} THEN session_keys
                   ELSE MergeKeys(session_keys,
                                  get_session_clickup_task_refs(refs, CHOOSE w \in worktree_id : TRUE))
      Readable(i) == i \in taskFiles
  IN SelectSeq(task_keys, Readable)

\* One listing, observed; it reads the Refs Store and the files.
ListCall(session_id, worktree_id) ==
  /\ lastOp' = {[op |-> "list", session_id |-> session_id, worktree_id |-> worktree_id,
                 ok |-> TRUE,
                 out |-> list_loaded_clickup_task_contexts(session_id, worktree_id)]}
  /\ UNCHANGED <<taskFiles, subFiles, refs, mdVars, loading, token, invalidated, oauthVars, apiVars>>

\* The caller has taken the records.
ListTaken ==
  /\ lastOp # {}
  /\ lastOp' = {}
  /\ UNCHANGED <<taskFiles, subFiles, refs, mdVars, loading, token, invalidated, oauthVars, apiVars>>

\* The sessions load and remove contexts, and list them under their own id
\* alone or with another id as worktree.
NextList ==
  \/ /\ lastOp = {}
     /\ \E s \in Sessions, t \in TaskIds : \E plan \in LoadPlans[t] :
          load_clickup_task_context(s, t, plan)
  \/ /\ lastOp = {}
     /\ \E s \in Sessions, t \in TaskIds : remove_clickup_task_context(s, t)
  \/ /\ lastOp = {}
     /\ \E s \in Sessions, w \in {{}} \cup {{x} : x \in Sessions} : ListCall(s, w)
  \/ ListTaken

SpecList == InitSignedOut /\ [][NextList]_vars

\* ------------------------------------ commands.rs: the subtask filter
\* A task of the workspace listing as the filter reads it: its id and its
\* `parent`, an Option.
ListedTasks == {t \in [id : ContextIds, parent : {{}} \cup {{p} : p \in ContextIds}] :
                  t.parent # {t.id}}

\* The listings: the tasks of the workspace in the order the API gives them,
\* each task once.
ListingSeqs ==
  UNION {{l \in [1..n -> ListedTasks] : \A j, k \in 1..n : l[j].id = l[k].id => j = k} :
         n \in 0..MaxListing}

\* A filter that takes the tasks in front of the listing that match.
subtask_tasks_leading(subtasks_result, task_id) ==
  IF subtasks_result = {} THEN <<>>
  ELSE LET tasks == CHOOSE l \in subtasks_result : TRUE
           stops == {k \in 1..Len(tasks) : tasks[k].parent # {task_id}}
       IN IF stops = {} THEN tasks
          ELSE SubSeq(tasks, 1, (CHOOSE k \in stops : \A j \in stops : k <= j) - 1)

\* commands.rs:369-378: subtask_tasks, the tasks of the listing whose parent
\* is Some(task_id), in the order of the listing; a failed listing (the
\* Result is {}) gives the empty Vec (unwrap_or_default).
subtask_tasks(subtasks_result, task_id) ==
  IF subtasks_result = {} THEN <<>>
  ELSE LET tasks == CHOOSE l \in subtasks_result : TRUE
           IsSubtask(t) == t.parent = {task_id}
       IN SelectSeq(tasks, IsSubtask)

\* load_clickup_task_context computes the subtasks of task_id from the
\* result of the listing, observed.
FilterCall(subtasks_result, task_id) ==
  /\ lastOp' = {[op |-> "subtask_tasks", subtasks_result |-> subtasks_result,
                 task_id |-> task_id, out |-> subtask_tasks(subtasks_result, task_id)]}
  /\ UNCHANGED <<token, invalidated, oauthVars, apiVars, taskFiles, subFiles, refs, mdVars, loading>>

\* The load goes on with the subtasks.
FilterTaken ==
  /\ lastOp # {}
  /\ lastOp' = {}
  /\ UNCHANGED <<token, invalidated, oauthVars, apiVars, taskFiles, subFiles, refs, mdVars, loading>>

NextFilter ==
  \/ /\ lastOp = {}
     /\ \E task_id \in ContextIds, subtasks_result \in {{}} \cup {{l} : l \in ListingSeqs} :
          FilterCall(subtasks_result, task_id)
  \/ FilterTaken

SpecFilter == InitSignedOut /\ [][NextFilter]_vars

\* ------------------------------------- commands.rs: the context markdown
\* Text is a sequence of tokens: single characters where the parsing looks
\* at characters, and whole literals of the renderer elsewhere.
Header == "# ClickUp Task "
CommentMark == "### @"
\* The literal that precedes a subtask file name (its backquote written as |).
SubtaskMark == "see |clickup-subtask-"
\* Literals the renderer writes on lines of their own.
NoDescription == "*No description provided.*"
SubtasksHeading == "## Subtasks"
CommentsHeading == "## Comments"
CallToAction == "*Investigate this task and propose a solution.*"

\* Characters of a task name: an upper-case letter, a lower-case letter,
\* a colon and a space.
NameChars == {"A", "a", ":", " "}

\* is_ascii_uppercase, is_ascii_digit or a dash, on these characters.
IsIdChar(ch) == ch \in {"A", "1", "-"}

Names == UNION {[1..n -> NameChars] : n \in 1..MaxNameLen}

\* Option<String> values for custom_id and description, and comment texts.
CustomIds == {{}, {<<"A", "-", "1">>}, {<<"a">>}}
Descriptions == {{}, {<<>>}, {<<"a">>}, {<<CommentMark>>}, {<<SubtaskMark>>},
                 {<<SubtasksHeading>>}, {<<NoDescription>>}}
CommentTexts == {<<"a">>, <<CommentMark, "a">>}

Comments == {[username |-> <<"a">>, date |-> <<"1">>, comment_text |-> t] : t \in CommentTexts}
SubtaskInfos == {[id |-> <<"1">>, name |-> <<"a">>, status |-> <<"a">>]}

\* A ClickUpTaskDetail as far as the renderer reads it, with the
\* SubtaskInfo list it is rendered with.
Tasks == [name : Names, custom_id : CustomIds, description : Descriptions,
          comments : {<<>>} \cup {<<c>> : c \in Comments},
          subtasks : {<<>>} \cup {<<i>> : i \in SubtaskInfos}]

RECURSIVE Concat(_)
Concat(seqs) == IF seqs = <<>> THEN <<>> ELSE Head(seqs) \o Concat(Tail(seqs))

\* commands.rs:262-271: one line per subtask.
SubtaskLines(subtasks) ==
  Concat([k \in 1..Len(subtasks) |->
            <<"- **">> \o subtasks[k].name \o <<"** [">> \o subtasks[k].status
              \o <<"] -- ", SubtaskMark>> \o subtasks[k].id \o <<".md|", "\n">>])

\* commands.rs:273-284: one block per comment.
CommentBlocks(comments) ==
  Concat([k \in 1..Len(comments) |->
            <<CommentMark>> \o comments[k].username \o <<" (">> \o comments[k].date
              \o <<")", "\n", "\n">> \o comments[k].comment_text
              \o <<"\n", "\n", "---", "\n", "\n">>])

\* A renderer that writes the comments heading for every task.
format_with_comments_heading(task, subtasks) ==
  LET id_prefix == IF task.custom_id = {} THEN <<>>
                   ELSE (CHOOSE id \in task.custom_id : TRUE) \o <<":", " ">>
      desc == IF task.description = {} \/ task.description = {<<>>}
                THEN <<NoDescription>>
                ELSE CHOOSE d \in task.description : TRUE
  IN <<Header>> \o id_prefix \o task.name \o <<"\n", "\n">>
       \o <<"---", "\n", "\n">>
       \o <<"## Description", "\n", "\n">> \o desc \o <<"\n", "\n">>
       \o (IF subtasks # <<>>
             THEN <<SubtasksHeading, "\n", "\n">> \o SubtaskLines(subtasks) \o <<"\n">>
             ELSE <<>>)
       \o <<CommentsHeading, "\n", "\n">> \o CommentBlocks(task.comments)
       \o <<"---", "\n", "\n", CallToAction, "\n">>

\* commands.rs:233-288 format_clickup_task_context_markdown.
format_clickup_task_context_markdown(task, subtasks) ==
  LET id_prefix == IF task.custom_id = {} THEN <<>>
                   ELSE (CHOOSE id \in task.custom_id : TRUE) \o <<":", " ">>
      desc == IF task.description = {} \/ task.description = {<<>>}
                THEN <<NoDescription>>
                ELSE CHOOSE d \in task.description : TRUE
  IN <<Header>> \o id_prefix \o task.name \o <<"\n", "\n">>
       \o <<"---", "\n", "\n">>
       \o <<"## Description", "\n", "\n">> \o desc \o <<"\n", "\n">>
       \o (IF subtasks # <<>>
             THEN <<SubtasksHeading, "\n", "\n">> \o SubtaskLines(subtasks) \o <<"\n">>
             ELSE <<>>)
       \o (IF task.comments # <<>>
             THEN <<CommentsHeading, "\n", "\n">> \o CommentBlocks(task.comments)
             ELSE <<>>)
       \o <<"---", "\n", "\n", CallToAction, "\n">>

\* content.lines().next(): the text before the first line break.
FirstLine(content) ==
  LET breaks == {k \in 1..Len(content) : content[k] = "\n"} IN
    IF breaks = {} THEN content
    ELSE SubSeq(content, 1, (CHOOSE k \in breaks : \A j \in breaks : k <= j) - 1)

\* line.strip_prefix("# ClickUp Task "), an Option.
StripHeader(line) ==
  IF line # <<>> /\ Head(line) = Header THEN {Tail(line)} ELSE {}

\* rest.split_once(": "), an Option of (prefix, after_colon).
SplitOnce(rest) ==
  LET at == {k \in 1..(Len(rest) - 1) : rest[k] = ":" /\ rest[k + 1] = " "} IN
    IF at = {} THEN {}
    ELSE LET k == CHOOSE k \in at : \A j \in at : k <= j IN
           {[prefix |-> SubSeq(rest, 1, k - 1), after_colon |-> SubSeq(rest, k + 2, Len(rest))]}

\* commands.rs:507-512, 525-529: the prefix is all upper-case letters, digits
\* and dashes (true of the empty prefix).
LooksLikeCustomId(prefix) == \A k \in 1..Len(prefix) : IsIdChar(prefix[k])

\* content.matches(mark).count() on text in which a mark is one token.
CountOf(mark, content) == Cardinality({k \in 1..Len(content) : content[k] = mark})

\* commands.rs:498-553: the record list_loaded_clickup_task_contexts
\* reconstructs from the content of clickup-task-{task_id}.md.
ParseContext(content, task_id) ==
  LET rest == StripHeader(FirstLine(content))
      split == IF rest = {} THEN {} ELSE SplitOnce(CHOOSE r \in rest : TRUE)
      id == {sp \in split : LooksLikeCustomId(sp.prefix)}
  IN [name |-> IF rest = {} THEN <<"Task ">> \o task_id
               ELSE IF id # {} THEN (CHOOSE sp \in id : TRUE).after_colon
               ELSE CHOOSE r \in rest : TRUE,
      custom_id |-> {sp.prefix : sp \in id},
      comment_count |-> CountOf(CommentMark, content),
      subtask_count |-> CountOf(SubtaskMark, content)]

\* commands.rs:436-440: load_clickup_task_context renders the parent file
\* of a task and writes it. The file is followed from one writing to its
\* removal.
WriteContext(task) ==
  /\ rtask' = {task}
  /\ rfile' = {format_clickup_task_context_markdown(task, task.subtasks)}
  /\ rparsed' = {}
  /\ UNCHANGED <<token, invalidated, oauthVars, apiVars, taskFiles, subFiles, refs, lastOp, loading>>

\* commands.rs:498-553: list_loaded_clickup_task_contexts reads the file.
ListContext ==
  /\ rfile # {}
  /\ rparsed = {}
  /\ rparsed' = {ParseContext(CHOOSE c \in rfile : TRUE, <<"1">>)}
  /\ UNCHANGED <<token, invalidated, oauthVars, apiVars, taskFiles, subFiles, refs, lastOp, loading,
                 rtask, rfile>>

\* commands.rs:586-588: remove_clickup_task_context deletes the file.
DeleteContext ==
  /\ rparsed # {}
  /\ rtask' = {}
  /\ rfile' = {}
  /\ rparsed' = {}
  /\ UNCHANGED <<token, invalidated, oauthVars, apiVars, taskFiles, subFiles, refs, lastOp, loading>>

NextRender ==
  \/ /\ rfile = {}
     /\ \E task \in Tasks : WriteContext(task)
  \/ ListContext
  \/ DeleteContext

SpecRender == InitSignedOut /\ [][NextRender]_vars

\* ------------------------------------------------------------ properties
\* The query with neither a code nor an error, and the text the handler
\* sends for it (auth.rs:112-114).
BareQuery == [code |-> {}, error |-> {}]

NoCodeText == "No authorization code received"

\* The request that took flow f's signal, when there is one.
FirstOf(f) == CHOOSE q \in first[f] : TRUE

SameSignal(r, s) == r.ok = s.ok /\ r.val = s.val

IsAuthError(v) == v \in {NotAuthenticated, KeychainUnreadable, TokenInvalid}

\* Call slot c takes a call in this step / gets a 401 answer in this step.
BeginStep(c) == cpc[c] = "idle" /\ cpc'[c] # "idle"

Got401Step(c) == cpc[c] \in {"sent", "sent2"} /\ cres'[c] = TokenInvalid

\* Only the keychain entry changes, and it is removed: clickup_logout.
LogoutStep ==
  token' = {} /\ UNCHANGED <<invalidated, oauthVars, apiVars, ctxVars>>

\* Flow f's store step succeeds in this step.
StoreStep(f) ==
  /\ pc[f] = "TokenExchanged"
  /\ pc'[f] = "Stored"
  /\ tok[f] # {}
  /\ token' = tok[f]

\* C2: every authenticated operation called while the keychain holds no
\* token returns AuthError at once and sends no HTTP request.
C2_NoTokenNoRequest ==
  [][\A c \in Calls :
       (BeginStep(c) /\ token = {}) =>
         /\ cpc'[c] = "done"
         /\ IsAuthError(cres'[c])
         /\ creqs'[c] = 0
         /\ ctok'[c] = {}]_vars

C2_Witness ==
  \E c \in Calls :
    token = {} /\ cpc[c] = "done" /\ cres[c] = NotAuthenticated /\ creqs[c] = 0

C4_TokenWriters ==
  [][/\ token' # token =>
          \/ \E f \in Flows : StoreStep(f) /\ storeCalls'[f] = 1
          \/ token' = {} /\ \E c \in Calls : Got401Step(c)
          \/ LogoutStep
     /\ \A f \in Flows :
          /\ storeCalls'[f] <= 1
          /\ (storeCalls'[f] = 1) <=>
               (tok'[f] # {} /\ pc'[f] # "TokenExchanged")]_vars

C4_Witness ==
  /\ storeCalls[1] = 1
  /\ pc[1] \in {"Stored", "Complete"}
  /\ invalidated = "cleared"
  /\ token = {}

\* C5 as stated: a flow whose browser launch failed goes on, its listener
\* still up and waiting for the callback.
C5_LaunchFailureGoesOn ==
  \A f \in Flows : browser[f] = "failed" => pc[f] # "Failed" /\ HoldsPort(f)

\* C5, amended: a browser launch failure ends the flow at once with the
\* launch error; the listener is dropped without having served a request and
\* no code exchange or token storage follows.
C5_LaunchFailureEndsFlow ==
  \A f \in Flows :
    browser[f] = "failed" =>
      /\ pc[f] = "Failed"
      /\ result[f] = "BrowserLaunchError"
      /\ listener[f] = "dropped"
      /\ nreq[f] = 0
      /\ exchangeReqs[f] = <<>>
      /\ storeCalls[f] = 0

C5_Witness ==
  \E f, g \in Flows :
    browser[f] = "failed" /\ pc[f] = "Failed" /\ g # f /\ listener[g] = "serving"

\* C6: the first callback request alone decides the flow's outcome; every
\* later request is answered with the success page and changes nothing, so a
\* code is exchanged at most once per flow and it is the first request's.
C6_FirstCallbackDecides ==
  \A f \in Flows :
    /\ laterPages[f] \subseteq {SUCCESS_HTML}
    /\ Len(exchangeReqs[f]) <= 1
    /\ first[f] = {} =>
         chan[f] = {} /\ code[f] = {} /\ exchangeReqs[f] = <<>> /\ laterPages[f] = {}
    /\ first[f] # {} =>
         /\ \A r \in chan[f] : SameSignal(r, SignalFor(FirstOf(f)))
         /\ chan[f] # {}
         /\ code[f] \subseteq FirstOf(f).code
         /\ \A i \in 1..Len(exchangeReqs[f]) : exchangeReqs[f][i] \in FirstOf(f).code
         /\ result[f] = "CallbackError" => FirstOf(f).code = {}

C6_Witness ==
  \E f \in Flows :
    /\ nreq[f] >= 2
    /\ laterPages[f] # {}
    /\ FirstOf(f).code # {}
    /\ exchangeReqs[f] # <<>>

\* C7 as stated: a request with neither a code nor an error leaves the
\* signal unconsumed and the flow waiting.
C7_BareRequestIgnored ==
  \A f \in Flows : first[f] = {BareQuery} => tx[f] /\ pc[f] # "Failed"

\* C7, amended: a first request with neither a code nor an error consumes
\* the signal like an error request: it is answered with the error page and
\* the flow fails with "No authorization code received"; no later request's
\* code is exchanged.
C7_BareRequestFailsFlow ==
  \A f \in Flows :
    first[f] = {BareQuery} =>
      /\ ~tx[f]
      /\ chan[f] # {}
      /\ \A r \in chan[f] : ~r.ok /\ r.val = NoCodeText
      /\ firstPage[f] = {ERROR_HTML}
      /\ code[f] = {}
      /\ exchangeReqs[f] = <<>>
      /\ pc[f] \in {"AwaitingCallback", "Failed"}
      /\ pc[f] = "Failed" => result[f] = "CallbackError" /\ errInfo[f] = NoCodeText

C7_Witness ==
  \E f \in Flows :
    /\ first[f] = {BareQuery}
    /\ nreq[f] >= 2
    /\ laterPages[f] # {}
    /\ pc[f] = "Failed"

\* C8: a flow that times out has received no callback, returns the timeout
\* error and has shut its listener down, so it no longer holds the port and a
\* later flow can bind it.
C8_TimeoutFreesPort ==
  \A f \in Flows :
    result[f] = "TimeoutError" =>
      /\ pc[f] = "Failed"
      /\ first[f] = {}
      /\ nreq[f] = 0
      /\ listener[f] = "aborted"
      /\ ~HoldsPort(f)
      /\ exchangeReqs[f] = <<>>

C8_Witness ==
  \E f, g \in Flows :
    result[f] = "TimeoutError" /\ f < g /\ HoldsPort(g)

\* C9: whenever a flow's code exchange has been sent its listener is already
\* shut down, and from then on the flow's server accepts no request.
C9_ListenerDownBeforeExchange ==
  [][\A f \in Flows :
       exchangeReqs'[f] # <<>> =>
         listener'[f] = "aborted" /\ nreq'[f] = nreq[f]]_vars

C9_Witness ==
  \E f \in Flows :
    exchangeReqs[f] # <<>> /\ listener[f] = "aborted" /\ nreq[f] < MaxCallbacks

\* C10: when the port cannot be bound the flow fails at once with an error
\* naming port 8642; the browser is not opened and the bind is not retried.
C10_BindFailure ==
  [][\A f \in Flows :
       /\ (pc[f] = "Idle" /\ bindCalls'[f] # bindCalls[f] /\ ~PortFree) =>
            pc'[f] = "Failed" /\ result'[f] = "ListenerBindError"
       /\ result'[f] = "ListenerBindError" =>
            /\ pc'[f] = "Failed"
            /\ errInfo'[f] = OAuthPort
            /\ browser'[f] = "none"
            /\ bindCalls'[f] = 1
            /\ listener'[f] = "none"
            /\ nreq'[f] = 0]_vars

C10_Witness ==
  \E f \in Flows : result[f] = "ListenerBindError" /\ errInfo[f] = OAuthPort


\* What invocation f holds and has done, as one tuple.
FlowState(f) ==
  <<pc[f], listener[f], browser[f], tx[f], chan[f], code[f], tok[f], result[f],
    errInfo[f], bindCalls[f], nreq[f], exchangeReqs[f], storeCalls[f], emitted[f]>>

\* C11: when the first callback request carries an error and no code, it is
\* answered with the failure page, the flow fails with CallbackError carrying
\* the provider's error string, no code exchange is sent and the flow leaves
\* the keychain entry as it is.
C11_ErrorCallback ==
  [][\A f \in Flows :
       /\ (first'[f] # {} /\ FirstOf(f)'.code = {} /\ FirstOf(f)'.error # {}) =>
            /\ firstPage'[f] = {ERROR_HTML}
            /\ pc'[f] \in {"AwaitingCallback", "Failed"}
            /\ code'[f] = {}
            /\ exchangeReqs'[f] = <<>>
            /\ storeCalls'[f] = 0
            /\ pc'[f] = "Failed" =>
                 result'[f] = "CallbackError" /\ errInfo'[f] \in FirstOf(f)'.error
       /\ (pc[f] = "AwaitingCallback" /\ pc'[f] = "Failed") => token' = token]_vars

C11_Witness ==
  \E f \in Flows :
    /\ first[f] # {}
    /\ FirstOf(f).error = {"access_denied"}
    /\ pc[f] = "Failed"
    /\ result[f] = "CallbackError"
    /\ errInfo[f] = "access_denied"

\* C12: a step that fails ends the flow: a failed flow takes no further step,
\* the keychain write is attempted only after an exchange that gave a token,
\* the completion event only after a keychain write that worked, and no step
\* is made twice.
C12_FailureEndsFlow ==
  [][\A f \in Flows :
       /\ pc[f] = "Failed" => FlowState(f)' = FlowState(f)
       /\ storeCalls'[f] # storeCalls[f] => pc[f] = "TokenExchanged" /\ tok[f] # {}
       /\ (pc'[f] = "Stored" /\ pc[f] # "Stored") =>
            pc[f] = "TokenExchanged" /\ token' = tok[f]
       /\ emitted'[f] # emitted[f] => pc[f] = "Stored"
       /\ result'[f] = "TokenExchangeError" =>
            pc'[f] = "Failed" /\ tok'[f] = {} /\ storeCalls'[f] = 0 /\ emitted'[f] = 0
       /\ result'[f] = "PersistError" =>
            pc'[f] = "Failed" /\ storeCalls'[f] = 1 /\ emitted'[f] = 0
       /\ bindCalls'[f] <= 1
       /\ Len(exchangeReqs'[f]) <= 1
       /\ storeCalls'[f] <= 1
       /\ emitted'[f] <= 1]_vars

C12_Witness ==
  \E f, g \in Flows :
    result[f] = "TokenExchangeError" /\ errInfo[f] = "non2xx" /\ result[g] = "PersistError"

\* C13 as stated: once the token is persisted the flow completes successfully
\* whether or not the completion event is delivered.
C13_EmitFailureIgnored ==
  \A f \in Flows :
    (storeCalls[f] = 1 /\ result[f] \notin {"pending", "PersistError"}) => result[f] = "Ok"

\* C13, amended: the completion event is emitted once, after the token is
\* persisted, and never retried; when its delivery fails the flow returns an
\* error, and the token it persisted stays in the keychain.
C13_EmitFailureFailsFlow ==
  [][\A f \in Flows :
       /\ emitted'[f] <= 1
       /\ (pc[f] = "Stored" /\ pc'[f] # "Stored") =>
            /\ token' = token
            /\ storeCalls'[f] = 1
            /\ \/ pc'[f] = "Complete" /\ result'[f] = "Ok" /\ emitted'[f] = 1
               \/ pc'[f] = "Failed" /\ result'[f] = "EmitError" /\ emitted'[f] = 0
       /\ result'[f] = "EmitError" => pc'[f] = "Failed" /\ emitted'[f] = 0
       /\ result'[f] = "Ok" <=> pc'[f] = "Complete"]_vars

C13_Witness ==
  \E f \in Flows : result[f] = "EmitError" /\ token = tok[f] /\ storeCalls[f] = 1


\* The call observed in this step, if it is a load.
LoadObserved(r) == r.op = "load" /\ lastOp = {}

C15_FailedSubtaskSkipped ==
  [][\A r \in lastOp' :
       (LoadObserved(r) /\ r.case.taskOk /\ r.case.commentsOk) =>
         LET fetched == r.case.subtasks \ r.case.failing IN
           /\ r.out.ok
           /\ r.out.listed = fetched
           /\ r.out.subtask_count = Cardinality(fetched)
           /\ r.task_id \in taskFiles'
           /\ r.session_id \in refs'[r.task_id]
           /\ \A i \in fetched :
                subFiles'[i] = {r.task_id} /\ refs'[i] = refs[i] \cup {r.session_id}
           /\ \A i \in ContextIds \ fetched :
                /\ subFiles'[i] = subFiles[i]
                /\ i # r.task_id => refs'[i] = refs[i]]_vars

C15_Witness ==
  \E r \in lastOp :
    /\ r.op = "load"
    /\ r.out.ok
    /\ r.case.failing # {}
    /\ r.case.subtasks \ r.case.failing # {}
    /\ r.out.subtask_count = 1

\* The call observed in this step, if it is a remove.
RemoveObserved(r) == r.op = "remove" /\ (lastOp = {} \/ r.repeat)

\* C16: remove_clickup_task_context(s, t) drops the reference of s on t; while
\* another session still references t no file is deleted and no other
\* reference changes; when none does, the parent file and every subtask file
\* pointing to it are deleted and the reference of s on each of these
\* subtasks is removed, and nothing else changes.
C16_RemoveDeletesWhenOrphaned ==
  [][\A r \in lastOp' :
       RemoveObserved(r) =>
         LET s == r.session_id
             t == r.task_id
             orphaned == refs[t] \ {s} = {}
             pointing == {i \in ContextIds : subFiles[i] = {t}}
         IN /\ r.is_orphaned = orphaned
            /\ t \notin pointing => refs'[t] = refs[t] \ {s}
            /\ ~orphaned =>
                 /\ taskFiles' = taskFiles /\ subFiles' = subFiles
                 /\ \A i \in ContextIds \ {t} : refs'[i] = refs[i]
            /\ orphaned =>
                 /\ taskFiles' = taskFiles \ {t}
                 /\ \A i \in pointing :
                      subFiles'[i] = {} /\ refs'[i] = refs[i] \ {s}
                 /\ \A i \in ContextIds \ pointing :
                      /\ subFiles'[i] = subFiles[i]
                      /\ i # t => refs'[i] = refs[i]]_vars

C16_Witness ==
  \E r \in lastOp :
    /\ r.op = "remove" /\ r.is_orphaned /\ ~r.repeat
    /\ r.task_id \notin taskFiles
    /\ \E j \in TaskIds : j # r.task_id /\ refs[j] # {} /\ subFiles[j] = {}
                          /\ j \notin taskFiles

\* C17: remove_clickup_task_context called again right after the same call
\* returns Ok and leaves the files and the references as the first call left
\* them.
C17_SecondRemoveNoOp ==
  [][\A r \in lastOp' :
       (r.op = "remove" /\ r.repeat) =>
         r.ok /\ UNCHANGED <<taskFiles, subFiles, refs>>]_vars

C17_Witness ==
  \E r \in lastOp : r.op = "remove" /\ r.repeat /\ r.is_orphaned /\ r.ok


\* C18: the record reconstructed from a rendered parent file has the name and
\* the custom_id of the task it was rendered from, and comment_count and
\* subtask_count equal to the numbers of comments and subtasks rendered.
C18_RenderParseRoundTrip ==
  \A task \in rtask, rec \in rparsed :
    /\ rec.name = task.name
    /\ rec.custom_id = task.custom_id
    /\ rec.comment_count = Len(task.comments)
    /\ rec.subtask_count = Len(task.subtasks)


\* A lookup was answered, and neither with 401 or 429 nor with a task.
Inconclusive(l) ==
  /\ l.status # NoResponse
  /\ l.status \notin {401, 429}
  /\ ~(IsSuccess(l.status) /\ l.parsed)

\* A lookup was answered with a task.
Found(l) == IsSuccess(l.status) /\ l.parsed

\* Call c has just been answered `status` on one of its search lookups.
LookedStep(c, status) ==
  /\ Len(clook'[c]) = Len(clook[c]) + 1
  /\ clook'[c][Len(clook'[c])].status = status

\* C19: search_task_by_id sends the custom-ID lookup only after an
\* inconclusive internal-ID lookup, and always then (a non-success status
\* other than 401/429 is no error); the first lookup answered with a task
\* ends the call with Ok(Some(task)); two inconclusive lookups end it with
\* Ok(None).
C19_SearchFallsThrough ==
  \A c \in Calls :
    LET L == clook[c] IN
      /\ Len(L) <= 2
      /\ creqs[c] = 2 => L # <<>> /\ Inconclusive(L[1])
      /\ (L # <<>> /\ Inconclusive(L[1])) =>
           /\ creqs[c] = 2
           /\ Len(L) = 1 => cpc[c] = "sent2" /\ cres[c] = "pending"
      /\ (L # <<>> /\ Found(L[1])) =>
           cpc[c] = "done" /\ cres[c] = "OkSome" /\ creqs[c] = 1
      /\ (Len(L) = 2 /\ Found(L[2])) => cpc[c] = "done" /\ cres[c] = "OkSome"
      /\ (Len(L) = 2 /\ Inconclusive(L[2])) => cpc[c] = "done" /\ cres[c] = "OkNone"

C19_Witness ==
  \E c \in Calls :
    /\ Len(clook[c]) = 2
    /\ clook[c][1].status = 404
    /\ Inconclusive(clook[c][2])
    /\ cres[c] = "OkNone"

C21_ClassifiedByStatus ==
  \A r \in lastOp :
    r.op = "check_response" =>
      /\ r.resp.status = 429 =>
           /\ r.out.kind = "RateLimited"
           /\ (r.resp.reset = {} => r.out.reset_at = {})
           /\ (r.resp.reset = {"1700"} => r.out.reset_at = {1700})
      /\ (r.resp.status \notin {401, 429} /\ ~IsSuccess(r.resp.status)) =>
           /\ r.out.kind = "RequestError"
           /\ r.out.status = {r.resp.status}
           /\ (r.resp.body # {} => r.out.body = r.resp.body)
      /\ IsSuccess(r.resp.status) => r.out.kind = "Ok"

C21_Witness ==
  \E r \in lastOp :
    /\ r.op = "check_response"
    /\ r.resp.status = 204
    /\ r.warned
    /\ r.out.kind = "Ok"

\* The ids of a sequence of listed tasks.
IdsOf(tasks) == {tasks[k].id : k \in 1..Len(tasks)}

\* The listing taken in another order.
Reordered(tasks, p) == [k \in 1..Len(tasks) |-> tasks[p[k]]]

\* C22: the subtasks load computes are exactly the tasks of the listing whose
\* parent is the queried task: each of them is taken, a task with another
\* parent or none is not, the same set comes out of the listing in any
\* order, and no match gives the empty set.
C22_SubtaskFilterExact ==
  \A r \in lastOp :
    r.op = "subtask_tasks" =>
      \A tasks \in r.subtasks_result :
        /\ \A k \in 1..Len(tasks) :
             tasks[k].id \in IdsOf(r.out) <=> tasks[k].parent = {r.task_id}
        /\ IdsOf(r.out) \subseteq IdsOf(tasks)
        /\ \A p \in Permutations(1..Len(tasks)) :
             IdsOf(subtask_tasks({Reordered(tasks, p)}, r.task_id)) = IdsOf(r.out)
        /\ (\A k \in 1..Len(tasks) : tasks[k].parent # {r.task_id}) => r.out = <<>>

C22_Witness ==
  \E r \in lastOp :
    /\ r.op = "subtask_tasks"
    /\ \E tasks \in r.subtasks_result :
         /\ Len(tasks) = 3
         /\ tasks[1].parent = {}
         /\ tasks[2].parent = {r.task_id}
         /\ tasks[3].parent \notin {{}, {r.task_id}}
         /\ IdsOf(r.out) = {tasks[2].id}

\* The keys referenced under the ids a listing was given.
KeysUnder(r) ==
  {i \in ContextIds : r.session_id \in refs[i] \/ \E w \in r.worktree_id : w \in refs[i]}

\* C23: a listing returns one record for each distinct key referenced under
\* session_id or under worktree_id whose parent file exists: a key under both
\* gives one record, a key without its file none and no error; the files and
\* the Refs Store are left as they were.
C23_ListOnePerKey ==
  [][\A r \in lastOp' :
       (lastOp = {} /\ r.op = "list") =>
         /\ r.ok
         /\ \A j, k \in 1..Len(r.out) : r.out[j] = r.out[k] => j = k
         /\ {r.out[k] : k \in 1..Len(r.out)} = {i \in KeysUnder(r) : i \in taskFiles}
         /\ UNCHANGED <<taskFiles, subFiles, refs>>]_vars

C23_Witness ==
  \E r \in lastOp :
    /\ r.op = "list"
    /\ \E w \in r.worktree_id, i, j \in ContextIds :
         /\ w # r.session_id
         /\ r.session_id \in refs[i] /\ w \in refs[i] /\ i \in taskFiles
         /\ r.session_id \in refs[j] /\ j \notin taskFiles
         /\ r.out = <<i>>

\* The text a content begins with, and the text it ends with.
StartsWith(content, text) ==
  Len(content) >= Len(text) /\ SubSeq(content, 1, Len(text)) = text
EndsWith(content, text) ==
  Len(content) >= Len(text)
    /\ SubSeq(content, Len(content) - Len(text) + 1, Len(content)) = text

\* The heading line of a task: its custom_id and ": " when it has one, then
\* its name.
HeadingOf(task) ==
  <<Header>> \o (IF task.custom_id = {} THEN <<>>
                 ELSE (CHOOSE id \in task.custom_id : TRUE) \o <<":", " ">>)
             \o task.name \o <<"\n">>

NoDescriptionGiven(task) == task.description = {} \/ task.description = {<<>>}

\* The text of the task itself that the renderer copies into the file.
OwnText(task) ==
  task.name
    \o (IF task.description = {} THEN <<>> ELSE CHOOSE d \in task.description : TRUE)
    \o Concat([k \in 1..Len(task.comments) |->
                 task.comments[k].username \o task.comments[k].date
                   \o task.comments[k].comment_text])
    \o Concat([k \in 1..Len(task.subtasks) |->
                 task.subtasks[k].name \o task.subtasks[k].status \o task.subtasks[k].id])

\* C24 as stated: the parent file starts with the heading, holds the
\* placeholder exactly when there is no description, a Subtasks section
\* exactly when there is a subtask and a Comments section exactly when there
\* is a comment, and ends with the call-to-action line.
C24_RenderedSections ==
  \A task \in rtask, content \in rfile :
    /\ StartsWith(content, HeadingOf(task))
    /\ CountOf(NoDescription, content) > 0 <=> NoDescriptionGiven(task)
    /\ CountOf(SubtasksHeading, content) > 0 <=> task.subtasks # <<>>
    /\ CountOf(CommentsHeading, content) > 0 <=> task.comments # <<>>
    /\ EndsWith(content, <<CallToAction, "\n">>)

\* C24, amended: the parent file starts with the heading and ends with the
\* call-to-action line; the renderer writes the placeholder exactly when
\* there is no description, the Subtasks heading exactly when there is a
\* subtask and the Comments heading exactly when there is a comment, each
\* once; the task's own text is copied as it is, so the file holds these
\* literals once more for each time the task's text holds them.
C24_RenderedSectionsWritten ==
  \A task \in rtask, content \in rfile :
    /\ StartsWith(content, HeadingOf(task))
    /\ CountOf(NoDescription, content) =
         (IF NoDescriptionGiven(task) THEN 1 ELSE 0) + CountOf(NoDescription, OwnText(task))
    /\ CountOf(SubtasksHeading, content) =
         (IF task.subtasks # <<>> THEN 1 ELSE 0) + CountOf(SubtasksHeading, OwnText(task))
    /\ CountOf(CommentsHeading, content) =
         (IF task.comments # <<>> THEN 1 ELSE 0) + CountOf(CommentsHeading, OwnText(task))
    /\ EndsWith(content, <<CallToAction, "\n">>)

C24_Witness ==
  \E task \in rtask, content \in rfile :
    /\ task.custom_id # {}
    /\ task.description = {<<>>}
    /\ task.comments = <<>>
    /\ task.subtasks # <<>>
    /\ CountOf(NoDescription, content) = 1
    /\ CountOf(SubtasksHeading, content) = 1
    /\ CountOf(CommentsHeading, content) = 0

\* The states of a flow in their order; Failed stands apart.
FlowOrder == <<"Idle", "ListenerBound", "BrowserOpened", "AwaitingCallback",
               "CodeReceived", "TokenExchanged", "Stored", "Complete">>

\* The state a flow is in: while its token exchange request is out it still
\* is in CodeReceived.
StateOf(f) == IF pc[f] = "Exchanging" THEN "CodeReceived" ELSE pc[f]

RankOf(state) == CHOOSE k \in 1..Len(FlowOrder) : FlowOrder[k] = state

\* C25: a flow goes through Idle, ListenerBound, BrowserOpened,
\* AwaitingCallback, CodeReceived, TokenExchanged, Stored, Complete in this
\* order: it leaves a state only for the next one or for Failed, and never
\* leaves Complete or Failed.
C25_StatesInOrder ==
  [][\A f \in Flows :
       /\ StateOf(f)' \in {FlowOrder[k] : k \in 1..Len(FlowOrder)} \cup {"Failed"}
       /\ StateOf(f)' # StateOf(f) =>
            /\ StateOf(f) \notin {"Complete", "Failed"}
            /\ \/ StateOf(f)' = "Failed"
               \/ RankOf(StateOf(f)') = RankOf(StateOf(f)) + 1]_vars

C25_Witness ==
  \E f, g \in Flows :
    /\ pc[f] = "Complete"
    /\ pc[g] = "Failed"
    /\ result[g] = "EmitError"

\* C26: in a load each fetched subtask's file is written and its reference
\* registered before the parent file is written, and the parent's reference
\* is registered after the parent file; so whatever the load has registered,
\* it has written the file of before.
C26_FileBeforeReference ==
  \A l \in loading :
    /\ l.registered \subseteq l.written
    /\ l.task_id \in l.written =>
         l.todo = <<>> /\ l.written \ {l.task_id} \subseteq l.registered
    /\ \A i \in l.registered :
         /\ l.session_id \in refs[i]
         /\ IF i = l.task_id THEN i \in taskFiles ELSE subFiles[i] = {l.task_id}

C26_Witness ==
  \E l \in loading :
    /\ l.point = "Ok"
    /\ Cardinality(l.registered) = 3

\* Invocation g makes its bind call in this step.
BindStep(g) == pc[g] = "Idle" /\ bindCalls'[g] # bindCalls[g]

\* C27: at most one flow holds the callback port; a start_oauth call made
\* while another flow's listener holds it fails with ListenerBindError and
\* leaves that flow as it is, so that it still receives its callback and
\* completes; a call binds the port only when no listener holds it.
C27_OnePortHolder ==
  [][/\ \A f, g \in Flows : (HoldsPort(f)' /\ HoldsPort(g)') => f = g
     /\ \A g \in Flows :
          BindStep(g) =>
            IF \E f \in Flows : HoldsPort(f)
              THEN /\ pc'[g] = "Failed"
                   /\ result'[g] = "ListenerBindError"
                   /\ ~HoldsPort(g)'
                   /\ \A f \in Flows \ {g} :
                        /\ FlowState(f)' = FlowState(f)
                        /\ first'[f] = first[f]
              ELSE portExt \/ (pc'[g] = "ListenerBound" /\ HoldsPort(g)')]_vars

C27_Witness ==
  \E f, g \in Flows :
    /\ f < g
    /\ result[g] = "ListenerBindError"
    /\ pc[f] = "Complete"
    /\ first[f] # {}

\* Invocation f has returned.
Returned(f) == pc[f] \in {"Complete", "Failed"}

\* C28: once start_oauth has returned after binding its listener, however it
\* ended, the listener is gone from the port and the flow's server serves no
\* request any more.
C28_NoListenerAfterReturn ==
  [][\A f \in Flows :
       /\ (Returned(f)' /\ bindCalls'[f] = 1 /\ result'[f] # "ListenerBindError") =>
            /\ ~HoldsPort(f)'
            /\ listener'[f] \in {"dropped", "aborted"}
       /\ Returned(f) =>
            /\ nreq'[f] = nreq[f]
            /\ laterPages'[f] = laterPages[f]
            /\ listener'[f] = listener[f]]_vars

C28_Witness ==
  \E f, g \in Flows :
    /\ result[f] = "BrowserLaunchError"
    /\ listener[f] = "dropped"
    /\ result[g] = "TokenExchangeError"
    /\ listener[g] = "aborted"
    /\ nreq[g] < MaxCallbacks

\* C29: a token an OAuth flow has stored leaves the keychain only by logout
\* or by a 401 answering a request that carried this token; a 401 answering
\* a request sent with an older token leaves it.
C29_StaleAnswerKeepsNewToken ==
  [][(token' = {} /\ \E f \in Flows : token = {TokenOf(f)}) =>
       \/ LogoutStep
       \/ \E c \in Calls : Got401Step(c) /\ ctok[c] = token]_vars

\* C30: every start_oauth call that has been made returns in the end, with
\* Complete or Failed, as long as each step it starts finishes: the timeout
\* ends the wait for a callback that never comes.
C30_FlowReturns ==
  \A f \in Flows : (pc[f] # "Idle") ~> (pc[f] \in {"Complete", "Failed"})

C30_Witness ==
  \E f \in Flows :
    /\ pc[f] = "Failed"
    /\ result[f] = "TimeoutError"
    /\ first[f] = {}
    /\ browser[f] = "opened"

====
